---------------------------- MODULE Spec2Model ----------------------------
(***************************************************************************)
(* Model of the repo-ruleset-bot GitHub App (kuhlman-labs/repo-ruleset-bot).*)
(*                                                                         *)
(* The App receives webhook deliveries (repository_ruleset, installation,  *)
(* release), loads the ruleset definitions of the rulesets directory,      *)
(* rewrites the organization-scoped ids they carry (workflow repositories, *)
(* team and custom-role bypass actors) for the target organization and     *)
(* issues create / update calls for organization rulesets.                 *)
(*                                                                         *)
(* Sources modelled (the latest version of each function under src/):      *)
(*   handler          src/unnamed/part_008                                 *)
(*   loader / managed src/reporulesetbot/ruleset.go                        *)
(*   platform calls   src/reporulesetbot/utils.go   (lines 210-417)        *)
(*   differ           src/reporulesetbot/handler.go (lines 217-253),       *)
(*                    src/reporulesetbot/config.go  (lines 276-299)        *)
(*   JWT client       src/reporulesetbot/utils.go   (lines 110-142 and     *)
(*                    319-336: the key file and the in-memory variant)     *)
(*   configuration    src/reporulesetbot/config.go  (lines 27-82)          *)
(*   change detectors src/reporulesetbot/config.go  (lines 285-299)        *)
(*   mutating differ  src/main.go                   (lines 435-455)        *)
(*   repository URL   src/reporulesetbot/utils.go   (lines 376-400)        *)
(*   ruleset files    src/reporulesetbot/utils.go   (lines 403-417)        *)
(***************************************************************************)
EXTENDS Integers, Sequences, FiniteSets, TLC

(***************************************************************************)
(* Bounds of the model.                                                    *)
(***************************************************************************)
\* largest ruleset id the platform hands out; a create beyond it is refused
MaxRulesetID == 3

\* longest rule list compared by the differ
MaxRules == 3

\* longest bypass-actor list of a definition loaded on its own
MaxActors == 2

\* longest path of a URL, counted in "/" and runs of other characters
MaxPathLen == 6

(***************************************************************************)
(* The world outside the App: organizations, identities, the App itself.   *)
(***************************************************************************)
\* organizations the App is installed in (targets of reconciliation)
Orgs == {"acme", "beta"}

\* organization the definitions were authored against (ruleset.Source)
SourceOrg == "acme"

\* installation id of the App in each organization
InstallationOf == [o \in Orgs |-> IF o = "acme" THEN 1001 ELSE 1002]

\* slug of the App and the repository its external URL points to
AppSlug == "ruleset-bot"

AppExternalURL == [parses |-> TRUE, scheme |-> "https", host |-> "github.com", path |-> <<"/", "acme", "/", "repo-ruleset-bot">>]

\* teams of each organization: "beta" has no team with the slug "sec"
TeamsOf == [o \in Orgs |-> IF o = "acme" THEN {[id |-> 11, slug |-> "sec"], [id |-> 14, slug |-> "ops"]} ELSE {[id |-> 24, slug |-> "ops"]}]

\* custom repository roles of each organization: "beta" has no role named
\* "releaser"
RolesOf == [o \in Orgs |-> IF o = "acme" THEN {[id |-> 12, name |-> "auditor"], [id |-> 13, name |-> "releaser"]} ELSE {[id |-> 22, name |-> "auditor"]}]

\* repositories of each organization: "beta" has no repository named "infra"
ReposOf == [o \in Orgs |-> IF o = "acme" THEN {[id |-> 101, name |-> "ci"], [id |-> 102, name |-> "infra"], [id |-> 103, name |-> "docs"]} ELSE {[id |-> 201, name |-> "ci"], [id |-> 203, name |-> "docs"]}]

(***************************************************************************)
(* Data model: github.Ruleset, github.RulesetConditions, Workflows.        *)
(***************************************************************************)
\* a nil *github.RulesetConditions
NilConditions == [present |-> FALSE, include |-> <<>>, exclude_nil |-> TRUE]

CondMain == [present |-> TRUE, include |-> <<"~DEFAULT_BRANCH">>, exclude_nil |-> FALSE]

CondAll == [present |-> TRUE, include |-> <<"~ALL">>, exclude_nil |-> FALSE]

\* parameters of a rule that is not a "workflows" rule
NoWorkflows == [workflows |-> <<>>, extra |-> "none"]

\* a rule: its type tag and, for "workflows", the decoded Workflows payload
Rule(type, params) == [type |-> type, parameters |-> params]

PlainRule(type) == Rule(type, NoWorkflows)

WorkflowsRule(repoID) == Rule("workflows", [workflows |-> <<[repository_id |-> repoID, path |-> ".github/workflows/ci.yml", ref |-> "refs/heads/main"]>>, extra |-> "do_not_enforce_on_create"])

\* a "workflows" rule with two workflows, of two repositories
TwoWorkflowsRule(repoID1, repoID2) == Rule("workflows", [workflows |-> <<[repository_id |-> repoID1, path |-> ".github/workflows/docs.yml", ref |-> "refs/tags/v1"], [repository_id |-> repoID2, path |-> ".github/workflows/ci.yml", ref |-> "refs/heads/main"]>>, extra |-> "none"])

Actor(id, type) == [actor_id |-> id, actor_type |-> type]

\* rulesets/managed-ruleset.json
ManagedDef == [name |-> "managed-ruleset", enforcement |-> "active", source |-> SourceOrg,
               rules |-> <<PlainRule("pull_request"), WorkflowsRule(101)>>,
               conditions |-> CondMain,
               bypass_actors |-> <<Actor(1, "OrganizationAdmin"), Actor(12, "RepositoryRole")>>]

\* rulesets/second-ruleset.json: carries a team bypass actor
SecondDef == [name |-> "second-ruleset", enforcement |-> "evaluate", source |-> SourceOrg,
              rules |-> <<PlainRule("deletion")>>,
              conditions |-> CondAll,
              bypass_actors |-> <<Actor(11, "Team"), Actor(7, "Integration")>>]

\* rulesets/role-ruleset.json: carries a custom role of the source
\* organization that "beta" does not have
RoleDef == [name |-> "role-ruleset", enforcement |-> "active", source |-> SourceOrg,
            rules |-> <<PlainRule("deletion")>>,
            conditions |-> CondAll,
            bypass_actors |-> <<Actor(13, "RepositoryRole")>>]

\* a file of the rulesets directory: readable JSON or not
File(def) == [ok |-> TRUE, def |-> def]

BadFile == [ok |-> FALSE, def |-> ManagedDef]

\* the contents the rulesets directory may have
Stores == {<<File(ManagedDef)>>, <<File(ManagedDef), File(SecondDef)>>, <<File(SecondDef), File(ManagedDef)>>, <<File(ManagedDef), BadFile>>, <<File(RoleDef)>>}

(***************************************************************************)
(* Results of fallible calls: Go's (value, error) pairs.                   *)
(***************************************************************************)
Ok(v) == [err |-> FALSE, val |-> v]

Err(v) == [err |-> TRUE, val |-> v]

(***************************************************************************)
(* Platform lookups (utils.go).                                            *)
(***************************************************************************)
\* Apps.FindOrganizationInstallation
getOrgAppInstallationID(orgName) ==
    IF orgName \in Orgs THEN Ok(InstallationOf[orgName]) ELSE Err(0)

\* newJWTClient + getOrgAppInstallationID + NewInstallationClient
getSourceClient(sourceOrgName) == getOrgAppInstallationID(sourceOrgName)

\* Repositories.GetByID through the source installation
getRepoName(sourceOrgName, repoID) ==
    IF \E r \in ReposOf[sourceOrgName] : r.id = repoID
    THEN Ok((CHOOSE r \in ReposOf[sourceOrgName] : r.id = repoID).name)
    ELSE Err("")

\* Repositories.Get(owner, repo)
getRepoID(owner, repo) ==
    IF \E r \in ReposOf[owner] : r.name = repo
    THEN Ok((CHOOSE r \in ReposOf[owner] : r.name = repo).id)
    ELSE Err(0)

\* Teams.GetTeamByID in the source organization
getTeamByID(sourceOrgName, teamID) ==
    IF \E t \in TeamsOf[sourceOrgName] : t.id = teamID
    THEN Ok((CHOOSE t \in TeamsOf[sourceOrgName] : t.id = teamID).slug)
    ELSE Err("")

\* Teams.GetTeamBySlug in the target organization
getTeamByName(orgName, teamName) ==
    IF \E t \in TeamsOf[orgName] : t.slug = teamName
    THEN Ok((CHOOSE t \in TeamsOf[orgName] : t.slug = teamName).id)
    ELSE Err(0)

\* Organizations.ListCustomRepoRoles
getCustomRepoRolesForOrg(orgName) == RolesOf[orgName]

(***************************************************************************)
(* Ruleset Definition Loader (ruleset.go).                                 *)
(***************************************************************************)
\* updateWorkflowRepoID: repository id -> name in the source organization,
\* name -> id in the target organization
updateWorkflowRepoID(workflow, sourceOrgName, orgName) ==
    IF getSourceClient(sourceOrgName).err THEN Err(workflow)
    ELSE LET repoName == getRepoName(sourceOrgName, workflow.repository_id)
         IN  IF repoName.err THEN Err(workflow)
             ELSE LET newRepoID == getRepoID(orgName, repoName.val)
                  IN  IF newRepoID.err THEN Err(workflow)
                      ELSE Ok([workflow EXCEPT !.repository_id = newRepoID.val])

\* processWorkflows rewriting the first workflow of the rule only
processWorkflows_FirstOnly(rule, sourceOrgName, orgName) ==
    LET ws  == rule.parameters.workflows
        upd == [i \in 1..Len(ws) |-> IF i = 1 THEN updateWorkflowRepoID(ws[i], sourceOrgName, orgName) ELSE Ok(ws[i])]
    IN  IF \E i \in 1..Len(ws) : upd[i].err THEN Err(rule)
        ELSE Ok([rule EXCEPT !.parameters = [workflows |-> [i \in 1..Len(ws) |-> upd[i].val], extra |-> "none"]])

\* processWorkflows: decode the parameters as Workflows, rewrite every
\* workflow, encode the Workflows struct back (fields it does not declare
\* are not written back)
processWorkflows(rule, sourceOrgName, orgName) ==
    LET ws  == rule.parameters.workflows
        upd == [i \in 1..Len(ws) |-> updateWorkflowRepoID(ws[i], sourceOrgName, orgName)]
    IN  IF \E i \in 1..Len(ws) : upd[i].err THEN Err(rule)
        ELSE Ok([rule EXCEPT !.parameters = [workflows |-> [i \in 1..Len(ws) |-> upd[i].val], extra |-> "none"]])

\* processTeamActor leaving the actor as it is, without error, when the
\* target organization has no team of that slug
processTeamActor_MissIsNil(actor, sourceOrgName, orgName) ==
    IF getSourceClient(sourceOrgName).err THEN Err(actor)
    ELSE LET sourceTeam == getTeamByID(sourceOrgName, actor.actor_id)
         IN  IF sourceTeam.err THEN Err(actor)
             ELSE LET newTeam == getTeamByName(orgName, sourceTeam.val)
                  IN  IF newTeam.err THEN Ok(actor)
                      ELSE Ok([actor EXCEPT !.actor_id = newTeam.val])

\* processTeamActor: team id -> slug in the source organization, slug -> id
\* in the target organization
processTeamActor(actor, sourceOrgName, orgName) ==
    IF getSourceClient(sourceOrgName).err THEN Err(actor)
    ELSE LET sourceTeam == getTeamByID(sourceOrgName, actor.actor_id)
         IN  IF sourceTeam.err THEN Err(actor)
             ELSE LET newTeam == getTeamByName(orgName, sourceTeam.val)
                  IN  IF newTeam.err THEN Err(actor)
                      ELSE Ok([actor EXCEPT !.actor_id = newTeam.val])

\* processRepoRoleActor: role id -> name in the source organization's role
\* list, name -> id in the target organization's role list; when no role
\* of the target has that name the actor is returned as it is, without error
processRepoRoleActor(actor, sourceOrgName, orgName) ==
    IF getSourceClient(sourceOrgName).err THEN Err(actor)
    ELSE LET src      == getCustomRepoRolesForOrg(sourceOrgName)
             roleName == IF \E r \in src : r.id = actor.actor_id
                         THEN (CHOOSE r \in src : r.id = actor.actor_id).name
                         ELSE ""
             dst      == getCustomRepoRolesForOrg(orgName)
         IN  IF \E r \in dst : r.name = roleName
             THEN Ok([actor EXCEPT !.actor_id = (CHOOSE r \in dst : r.name = roleName).id])
             ELSE Ok(actor)

\* shouldProcessBypassActor letting every id other than 0 through
shouldProcessBypassActor_NonZero(bypassActor) ==
    bypassActor.actor_id # 0

\* shouldProcessBypassActor
shouldProcessBypassActor(bypassActor) ==
    bypassActor.actor_id # 0 /\ bypassActor.actor_id > 5

\* the bypass-actor loop of processRuleset translating an Integration actor
\* as it does a Team actor
processBypassActor_IntegrationAsTeam(actor, sourceOrgName, orgName) ==
    IF ~shouldProcessBypassActor(actor) THEN Ok(actor)
    ELSE IF actor.actor_type = "Team" THEN processTeamActor(actor, sourceOrgName, orgName)
    ELSE IF actor.actor_type = "RepositoryRole" THEN processRepoRoleActor(actor, sourceOrgName, orgName)
    ELSE IF actor.actor_type = "Integration" THEN processTeamActor(actor, sourceOrgName, orgName)
    ELSE Ok(actor)

\* one iteration of the bypass-actor loop of processRuleset
processBypassActor(actor, sourceOrgName, orgName) ==
    IF ~shouldProcessBypassActor(actor) THEN Ok(actor)
    ELSE IF actor.actor_type = "Team" THEN processTeamActor(actor, sourceOrgName, orgName)
    ELSE IF actor.actor_type = "RepositoryRole" THEN processRepoRoleActor(actor, sourceOrgName, orgName)
    ELSE Ok(actor)

\* index of the first failed result of rs (Len(rs) + 1: none failed)
FirstErr(rs) ==
    IF \E i \in 1..Len(rs) : rs[i].err
    THEN CHOOSE i \in 1..Len(rs) : rs[i].err /\ \A j \in 1..(i - 1) : ~rs[j].err
    ELSE Len(rs) + 1

\* the results of rs up to its first failure, the elements of orig from there on
UpToFirstErr(rs, orig) ==
    [i \in 1..Len(rs) |-> IF i < FirstErr(rs) THEN rs[i].val ELSE orig[i]]

\* what processRuleset returns once its two loops have given the results rs
\* (rules) and as (bypass actors): the first failure aborts and leaves the
\* ruleset rewritten up to there (the value of Err)
processRulesetResult(ruleset, rs, as) ==
    LET rules  == UpToFirstErr(rs, ruleset.rules)
        actors == UpToFirstErr(as, ruleset.bypass_actors)
    IN  IF FirstErr(rs) <= Len(rs) THEN Err([ruleset EXCEPT !.rules = rules])
        ELSE IF FirstErr(as) <= Len(as) THEN Err([ruleset EXCEPT !.rules = rules, !.bypass_actors = actors])
        ELSE Ok([ruleset EXCEPT !.rules = rules, !.bypass_actors = actors])

\* processRuleset: rewrite the workflows rules, then the bypass actors, in
\* place
processRuleset(ruleset, orgName) ==
    LET sourceOrgName == ruleset.source
        rs == [i \in 1..Len(ruleset.rules) |->
                 IF ruleset.rules[i].type = "workflows"
                 THEN processWorkflows(ruleset.rules[i], sourceOrgName, orgName)
                 ELSE Ok(ruleset.rules[i])]
        as == [i \in 1..Len(ruleset.bypass_actors) |->
                 processBypassActor(ruleset.bypass_actors[i], sourceOrgName, orgName)]
    IN  processRulesetResult(ruleset, rs, as)

\* processRulesetFile going on with a file it could not read or decode
processRulesetFile_NoReadCheck(file, orgName) ==
    processRuleset(file.def, orgName)

\* processRulesetFile: read and decode one file, then processRuleset
processRulesetFile(file, orgName) ==
    IF ~file.ok THEN Err(file.def) ELSE processRuleset(file.def, orgName)

\* getRulesets leaving out the files that fail and returning the others
getRulesets_SkipFailed(files, orgName) ==
    LET rs   == [i \in 1..Len(files) |-> processRulesetFile(files[i], orgName)]
        good == SelectSeq(rs, LAMBDA r : ~r.err)
    IN  Ok([i \in 1..Len(good) |-> good[i].val])

\* getRulesets: every file of the rulesets directory, in directory order;
\* one failing file fails the whole load
getRulesets(files, orgName) ==
    LET rs == [i \in 1..Len(files) |-> processRulesetFile(files[i], orgName)]
    IN  IF \E i \in 1..Len(files) : rs[i].err THEN Err(<<>>)
        ELSE Ok([i \in 1..Len(files) |-> rs[i].val])

(***************************************************************************)
(* Structural Differ and change detectors (handler.go, config.go) and the  *)
(* managed guard (ruleset.go).                                             *)
(***************************************************************************)
RuleTypes(rules) == {rules[i].type : i \in 1..Len(rules)}

\* compareRules comparing the lengths of the two lists only
compareRules_LengthOnly(rulesetRules, eventRules) ==
    Len(rulesetRules) = Len(eventRules)

\* compareRules comparing the two lists rule by rule, parameters included
compareRules_Exact(rulesetRules, eventRules) ==
    rulesetRules = eventRules

\* compareRules: equal length, and every rule type of the event occurs among
\* the rule types of the definition
compareRules(rulesetRules, eventRules) ==
    IF Len(rulesetRules) # Len(eventRules) THEN FALSE
    ELSE \A i \in 1..Len(eventRules) : eventRules[i].type \in RuleTypes(rulesetRules)

\* compareConditions comparing only whether the two rulesets have conditions
compareConditions_PresenceOnly(rulesetConditions, eventConditions) ==
    rulesetConditions.present = eventConditions.present

\* compareConditions: reflect.DeepEqual of the two conditions
compareConditions(rulesetConditions, eventConditions) ==
    rulesetConditions = eventConditions

\* a nil *github.Ruleset
NilRuleset == [nil |-> TRUE]

IsNil(ruleset) == "nil" \in DOMAIN ruleset

\* compareRulesets
compareRulesets(ruleset, event) ==
    IF IsNil(ruleset) \/ IsNil(event) THEN FALSE
    ELSE IF ~compareRules(ruleset.rules, event.rules) THEN FALSE
    ELSE IF ~compareConditions(ruleset.conditions, event.conditions) THEN FALSE
    ELSE TRUE

\* a nil *Changes: the payload has no "changes" member
NilChanges == [present |-> FALSE, name_from |-> "", enforcement_from |-> ""]

Changes(nameFrom, enforcementFrom) == [present |-> TRUE, name_from |-> nameFrom, enforcement_from |-> enforcementFrom]

\* isNameChanged
isNameChanged(event, ruleset) ==
    event.changes.present /\ event.changes.name_from = ruleset.name

\* isEnforcementChanged
isEnforcementChanged(event, ruleset) ==
    event.changes.present /\ event.changes.enforcement_from = ruleset.enforcement

\* isManagedRuleset reads event.Changes.Name.From without a nil check: with a
\* nil Changes the read is a nil-pointer dereference
isManagedRulesetFaults(event) == ~event.changes.present

\* isManagedRuleset, for an event that carries a changes member
isManagedRuleset(event, ruleset) ==
    IF event.changes.name_from # "" /\ ruleset.name = event.changes.name_from THEN TRUE
    ELSE IF ruleset.name # event.ruleset.name THEN FALSE
    ELSE TRUE

(***************************************************************************)
(* Platform write calls (utils.go).  A world w carries the rulesets of     *)
(* every organization, the next ruleset id, the write calls issued by the  *)
(* delivery being handled and the position of the call that the platform   *)
(* fails (0: none).                                                        *)
(***************************************************************************)
World(platform, nextId, failAt) == [platform |-> platform, nextId |-> nextId, calls |-> <<>>, failAt |-> failAt]

Stored(id, body) == [id |-> id, name |-> body.name, enforcement |-> body.enforcement, rules |-> body.rules, conditions |-> body.conditions, bypass_actors |-> body.bypass_actors]

\* createRuleset: Organizations.CreateOrganizationRuleset(orgName, ruleset)
createRuleset(w, orgName, ruleset) ==
    LET ok == (Len(w.calls) + 1 # w.failAt) /\ w.nextId <= MaxRulesetID
    IN  [w EXCEPT !.calls = Append(@, [op |-> "create", org |-> orgName, id |-> 0, body |-> ruleset, ok |-> ok]),
                  !.platform[orgName] = IF ok THEN @ \cup {Stored(w.nextId, ruleset)} ELSE @,
                  !.nextId = IF ok THEN @ + 1 ELSE @]

\* editRuleset: Organizations.UpdateOrganizationRuleset(orgName, rulesetID, ruleset)
editRuleset(w, orgName, rulesetID, ruleset) ==
    LET ok == (Len(w.calls) + 1 # w.failAt) /\ (\E r \in w.platform[orgName] : r.id = rulesetID)
    IN  [w EXCEPT !.calls = Append(@, [op |-> "update", org |-> orgName, id |-> rulesetID, body |-> ruleset, ok |-> ok]),
                  !.platform[orgName] = IF ok THEN {r \in @ : r.id # rulesetID} \cup {Stored(rulesetID, ruleset)} ELSE @]

\* whether the last call issued in w failed
lastFailed(w) == Len(w.calls) > 0 /\ ~w.calls[Len(w.calls)].ok

\* what a handler leaves behind: the world and the value Handle returns:
\* "nil", or the error by the call it wraps ("parse error", "client error",
\* "load error", "lookup error", "write error"), or "panic" when the
\* handler faults
Outcome(w, res) == [w |-> w, res |-> res]

(***************************************************************************)
(* Webhook deliveries.                                                     *)
(***************************************************************************)
\* an observed ruleset, as the event payload carries it
Observed(id, name, enforcement, rules, conditions) == [id |-> id, name |-> name, enforcement |-> enforcement, rules |-> rules, conditions |-> conditions]

NoRuleset == Observed(0, "", "", <<>>, NilConditions)

\* a delivery: its event type, whether its payload is JSON that decodes
\* into the event structure, and the payload members the handlers read
Event(type, action, org, sender, ruleset, changes, repo) == [type |-> type, json |-> TRUE, action |-> action, org |-> org, sender |-> sender, ruleset |-> ruleset, changes |-> changes, repo |-> repo]

NoEvent == Event("none", "", "", "", NoRuleset, NilChanges, "")

\* a delivery of that type whose payload json.Unmarshal rejects
Malformed(type) == [Event(type, "", "", "", NoRuleset, NilChanges, "") EXCEPT !.json = FALSE]

\* login of the App's bot user
BotLogin == AppSlug \o "[bot]"

(***************************************************************************)
(* Handlers (part_008).  infraFail: creating the JWT client, reading the   *)
(* App or creating the installation client fails.                          *)
(***************************************************************************)
RECURSIVE editedLoop_Unguarded(_, _, _, _)
\* the loop of handleRulesetEdited updating with every loaded ruleset,
\* whatever the name of the event's ruleset
editedLoop_Unguarded(event, rulesets, i, w) ==
    IF i > Len(rulesets) THEN Outcome(w, "nil")
    ELSE LET w2 == editRuleset(w, event.org, event.ruleset.id, rulesets[i])
         IN  IF lastFailed(w2) THEN Outcome(w2, "write error")
             ELSE editedLoop_Unguarded(event, rulesets, i + 1, w2)

RECURSIVE editedLoop_RetryOnce(_, _, _, _)
\* the loop of handleRulesetEdited issuing a failed update call a second
\* time before giving up
editedLoop_RetryOnce(event, rulesets, i, w) ==
    IF i > Len(rulesets) THEN Outcome(w, "nil")
    ELSE IF rulesets[i].name # event.ruleset.name THEN editedLoop_RetryOnce(event, rulesets, i + 1, w)
    ELSE IF isManagedRulesetFaults(event) THEN Outcome(w, "panic")
    ELSE IF ~isManagedRuleset(event, rulesets[i]) THEN Outcome(w, "nil")
    ELSE LET w2 == editRuleset(w, event.org, event.ruleset.id, rulesets[i])
             w3 == IF lastFailed(w2) THEN editRuleset(w2, event.org, event.ruleset.id, rulesets[i]) ELSE w2
         IN  IF lastFailed(w3) THEN Outcome(w3, "write error")
             ELSE editedLoop_RetryOnce(event, rulesets, i + 1, w3)

RECURSIVE editedLoop(_, _, _, _)
\* the loop of handleRulesetEdited over the loaded rulesets
editedLoop(event, rulesets, i, w) ==
    IF i > Len(rulesets) THEN Outcome(w, "nil")
    ELSE IF rulesets[i].name # event.ruleset.name THEN editedLoop(event, rulesets, i + 1, w)
    ELSE IF isManagedRulesetFaults(event) THEN Outcome(w, "panic")
    ELSE IF ~isManagedRuleset(event, rulesets[i]) THEN Outcome(w, "nil")
    ELSE LET w2 == editRuleset(w, event.org, event.ruleset.id, rulesets[i])
         IN  IF lastFailed(w2) THEN Outcome(w2, "write error")
             ELSE editedLoop(event, rulesets, i + 1, w2)

\* handleRulesetEdited comparing the sender with the App's slug, without the
\* "[bot]" suffix of the bot user's login
handleRulesetEdited_SlugOnly(event, files, w, infraFail) ==
    IF infraFail THEN Outcome(w, "client error")
    ELSE IF event.sender = AppSlug THEN Outcome(w, "nil")
    ELSE LET rulesets == getRulesets(files, event.org)
         IN  IF rulesets.err THEN Outcome(w, "load error")
             ELSE editedLoop(event, rulesets.val, 1, w)

\* handleRulesetEdited without the early return for edits by the bot user
handleRulesetEdited_NoSenderCheck(event, files, w, infraFail) ==
    IF infraFail THEN Outcome(w, "client error")
    ELSE LET rulesets == getRulesets(files, event.org)
         IN  IF rulesets.err THEN Outcome(w, "load error")
             ELSE editedLoop(event, rulesets.val, 1, w)

\* handleRulesetEdited
handleRulesetEdited(event, files, w, infraFail) ==
    IF infraFail THEN Outcome(w, "client error")
    ELSE IF event.sender = BotLogin THEN Outcome(w, "nil")
    ELSE LET rulesets == getRulesets(files, event.org)
         IN  IF rulesets.err THEN Outcome(w, "load error")
             ELSE editedLoop(event, rulesets.val, 1, w)

RECURSIVE deletedLoop(_, _, _, _)
\* the loop of handleRulesetDeleted: the first ruleset with the event's name
deletedLoop(event, rulesets, i, w) ==
    IF i > Len(rulesets) THEN Outcome(w, "nil")
    ELSE IF rulesets[i].name # event.ruleset.name THEN deletedLoop(event, rulesets, i + 1, w)
    ELSE IF isManagedRulesetFaults(event) THEN Outcome(w, "panic")
    ELSE IF ~isManagedRuleset(event, rulesets[i]) THEN Outcome(w, "nil")
    ELSE LET w2 == createRuleset(w, event.org, rulesets[i])
         IN  IF lastFailed(w2) THEN Outcome(w2, "write error") ELSE Outcome(w2, "nil")

\* handleRulesetDeleted
handleRulesetDeleted(event, files, w, infraFail) ==
    IF infraFail THEN Outcome(w, "client error")
    ELSE LET rulesets == getRulesets(files, event.org)
         IN  IF rulesets.err THEN Outcome(w, "load error")
             ELSE deletedLoop(event, rulesets.val, 1, w)

\* handleRulesetCreated
handleRulesetCreated(event, w) == Outcome(w, "nil")

\* handleRepositoryRuleset reconciling a created ruleset as it does an
\* edited one
handleRepositoryRuleset_CreatedAsEdited(event, files, w, infraFail) ==
    IF event.action = "created" THEN handleRulesetEdited(event, files, w, infraFail)
    ELSE IF event.action = "edited" THEN handleRulesetEdited(event, files, w, infraFail)
    ELSE IF event.action = "deleted" THEN handleRulesetDeleted(event, files, w, infraFail)
    ELSE Outcome(w, "nil")

\* handleRepositoryRuleset
handleRepositoryRuleset(event, files, w, infraFail) ==
    IF event.action = "created" THEN handleRulesetCreated(event, w)
    ELSE IF event.action = "edited" THEN handleRulesetEdited(event, files, w, infraFail)
    ELSE IF event.action = "deleted" THEN handleRulesetDeleted(event, files, w, infraFail)
    ELSE Outcome(w, "nil")

RECURSIVE installationLoop_KeepGoing(_, _, _, _)
\* the loop of handleInstallation going on to the next definition after a
\* create call that failed
installationLoop_KeepGoing(orgName, rulesets, i, w) ==
    IF i > Len(rulesets) THEN Outcome(w, "nil")
    ELSE installationLoop_KeepGoing(orgName, rulesets, i + 1, createRuleset(w, orgName, rulesets[i]))

RECURSIVE installationLoop(_, _, _, _)
\* the loop of handleInstallation: one create per loaded ruleset
installationLoop(orgName, rulesets, i, w) ==
    IF i > Len(rulesets) THEN Outcome(w, "nil")
    ELSE LET w2 == createRuleset(w, orgName, rulesets[i])
         IN  IF lastFailed(w2) THEN Outcome(w2, "write error")
             ELSE installationLoop(orgName, rulesets, i + 1, w2)

\* handleInstallation creating the rulesets in the organization the
\* definitions were written for, not in the organization of the event
handleInstallation_SourceOrg(event, files, w, infraFail) ==
    IF event.action # "created" THEN Outcome(w, "nil")
    ELSE IF infraFail THEN Outcome(w, "client error")
    ELSE LET rulesets == getRulesets(files, event.org)
         IN  IF rulesets.err THEN Outcome(w, "load error")
             ELSE installationLoop(SourceOrg, rulesets.val, 1, w)

\* handleInstallation
handleInstallation(event, files, w, infraFail) ==
    IF event.action # "created" THEN Outcome(w, "nil")
    ELSE IF infraFail THEN Outcome(w, "client error")
    ELSE LET rulesets == getRulesets(files, event.org)
         IN  IF rulesets.err THEN Outcome(w, "load error")
             ELSE installationLoop(event.org, rulesets.val, 1, w)

RECURSIVE TrimLeft(_)
\* strings.TrimLeft(path, "/"); a path is a sequence of "/" and of runs of
\* other characters
TrimLeft(path) ==
    IF path # <<>> /\ Head(path) = "/" THEN TrimLeft(Tail(path)) ELSE path

RECURSIVE TrimRight(_)
\* strings.TrimRight(path, "/")
TrimRight(path) ==
    IF path # <<>> /\ path[Len(path)] = "/" THEN TrimRight(SubSeq(path, 1, Len(path) - 1)) ELSE path

\* strings.Trim(path, "/")
Trim(path) == TrimRight(TrimLeft(path))

RECURSIVE Split(_, _)
\* strings.Split(path, "/") continued: cur is the segment being read
Split(path, cur) ==
    IF path = <<>> THEN <<cur>>
    ELSE IF Head(path) = "/" THEN <<cur>> \o Split(Tail(path), "")
    ELSE Split(Tail(path), cur \o Head(path))

RECURSIVE PathString(_)
\* the path as one string
PathString(path) ==
    IF path = <<>> THEN "" ELSE Head(path) \o PathString(Tail(path))

\* getRepoFullNameFromURL with the path split as it is, without the trim
getRepoFullNameFromURL_NoTrim(url) ==
    IF ~url.parses THEN Err("")
    ELSE IF url.scheme # "http" /\ url.scheme # "https" THEN Err("")
    ELSE IF url.host # "github.com" THEN Err("")
    ELSE LET path     == url.path
             segments == Split(path, "")
         IN  IF Len(segments) # 2 THEN Err("")
             ELSE Ok(PathString(path))

\* getRepoFullNameFromURL: the URL parses, its scheme is http or https, its
\* host is github.com and its trimmed path has two segments
getRepoFullNameFromURL(url) ==
    IF ~url.parses THEN Err("")
    ELSE IF url.scheme # "http" /\ url.scheme # "https" THEN Err("")
    ELSE IF url.host # "github.com" THEN Err("")
    ELSE LET path     == Trim(url.path)
             segments == Split(path, "")
         IN  IF Len(segments) # 2 THEN Err("")
             ELSE Ok(PathString(path))

\* the id of the ruleset of that name in the organization
getOrgRulesetID(w, orgName, rulesetName) ==
    IF \E r \in w.platform[orgName] : r.name = rulesetName
    THEN Ok((CHOOSE r \in w.platform[orgName] : r.name = rulesetName).id)
    ELSE Err(0)

RECURSIVE releaseRulesetLoop(_, _, _, _)
\* the inner loop of handleRelease: look the ruleset id up, update
releaseRulesetLoop(orgName, rulesets, i, w) ==
    IF i > Len(rulesets) THEN Outcome(w, "nil")
    ELSE LET rulesetID == getOrgRulesetID(w, orgName, rulesets[i].name)
         IN  IF rulesetID.err THEN Outcome(w, "lookup error")
             ELSE LET w2 == editRuleset(w, orgName, rulesetID.val, rulesets[i])
                  IN  IF lastFailed(w2) THEN Outcome(w2, "write error")
                      ELSE releaseRulesetLoop(orgName, rulesets, i + 1, w2)

RECURSIVE releaseOrgLoop(_, _, _, _)
\* the outer loop of handleRelease over the installations, in the order
\* the map iteration yields them
releaseOrgLoop(order, k, files, w) ==
    IF k > Len(order) THEN Outcome(w, "nil")
    ELSE LET rulesets == getRulesets(files, order[k])
         IN  IF rulesets.err THEN Outcome(w, "load error")
             ELSE LET o == releaseRulesetLoop(order[k], rulesets.val, 1, w)
                  IN  IF o.res # "nil" THEN o
                      ELSE releaseOrgLoop(order, k + 1, files, o.w)

\* handleRelease without the early return for actions other than released
handleRelease_AnyAction(event, order, files, w, infraFail) ==
    IF infraFail THEN Outcome(w, "client error")
    ELSE LET appRepoName == getRepoFullNameFromURL(AppExternalURL)
         IN  IF appRepoName.err THEN Outcome(w, "lookup error")
             ELSE IF event.repo # appRepoName.val THEN Outcome(w, "nil")
             ELSE releaseOrgLoop(order, 1, files, w)

\* handleRelease
handleRelease(event, order, files, w, infraFail) ==
    IF event.action # "released" THEN Outcome(w, "nil")
    ELSE IF infraFail THEN Outcome(w, "client error")
    ELSE LET appRepoName == getRepoFullNameFromURL(AppExternalURL)
         IN  IF appRepoName.err THEN Outcome(w, "lookup error")
             ELSE IF event.repo # appRepoName.val THEN Outcome(w, "nil")
             ELSE releaseOrgLoop(order, 1, files, w)

\* handleRepositoryRulesetEvent: decode the payload, then handle the event
handleRepositoryRulesetEvent(payload, files, w, infraFail) ==
    IF ~payload.json THEN Outcome(w, "parse error")
    ELSE handleRepositoryRuleset(payload, files, w, infraFail)

\* handleInstallationEvent
handleInstallationEvent(payload, files, w, infraFail) ==
    IF ~payload.json THEN Outcome(w, "parse error")
    ELSE handleInstallation(payload, files, w, infraFail)

\* handleReleaseEvent
handleReleaseEvent(payload, order, files, w, infraFail) ==
    IF ~payload.json THEN Outcome(w, "parse error")
    ELSE handleRelease(payload, order, files, w, infraFail)

\* Handles listing the event types in alphabetical order
Handles_Sorted == <<"installation", "release", "repository_ruleset">>

\* the event types the handler declares to the dispatcher
Handles == <<"repository_ruleset", "installation", "release">>

\* Handle decoding the payload before it looks at the event type
Handle_DecodeFirst(event, order, files, w, infraFail) ==
    IF ~event.json THEN Outcome(w, "parse error")
    ELSE IF event.type = "repository_ruleset" THEN handleRepositoryRulesetEvent(event, files, w, infraFail)
    ELSE IF event.type = "installation" THEN handleInstallationEvent(event, files, w, infraFail)
    ELSE IF event.type = "release" THEN handleReleaseEvent(event, order, files, w, infraFail)
    ELSE Outcome(w, "nil")

\* Handle: dispatch on the event type
Handle(event, order, files, w, infraFail) ==
    IF event.type = "repository_ruleset" THEN handleRepositoryRulesetEvent(event, files, w, infraFail)
    ELSE IF event.type = "installation" THEN handleInstallationEvent(event, files, w, infraFail)
    ELSE IF event.type = "release" THEN handleReleaseEvent(event, order, files, w, infraFail)
    ELSE Outcome(w, "nil")

(***************************************************************************)
(* The deliveries the model draws.                                         *)
(***************************************************************************)
Senders == {BotLogin, AppSlug, "alice"}

RulesetNames == {"managed-ruleset", "second-ruleset", "other-name"}

RulesetIDs == {1, 2}

\* observed rule lists: the rules of managed-ruleset, and a list that lost one
ObservedRules == {ManagedDef.rules, <<PlainRule("pull_request")>>}

ObservedConditions == {CondMain, CondAll}

\* the changes member of an edited event: absent, empty, a rename, an
\* enforcement change
EditedChanges == {NilChanges, Changes("", ""), Changes("managed-ruleset", ""), Changes("other-name", ""), Changes("", "active"), Changes("", "disabled")}

EditedEvents ==
    {Event("repository_ruleset", "edited", o, s, Observed(id, n, "active", r, c), ch, "") :
        o \in Orgs, s \in Senders, id \in RulesetIDs, n \in RulesetNames,
        r \in ObservedRules, c \in ObservedConditions, ch \in EditedChanges}

\* deleted, created and other actions; GitHub sends them without changes
OtherRulesetEvents ==
    {Event("repository_ruleset", a, o, s, Observed(id, n, "active", ManagedDef.rules, CondMain), ch, "") :
        a \in {"deleted", "created", "enforced"}, o \in Orgs, s \in {BotLogin, "alice"},
        id \in RulesetIDs, n \in RulesetNames, ch \in {NilChanges, Changes("", "")}}

InstallationEvents ==
    {Event("installation", a, o, "alice", NoRuleset, NilChanges, "") : a \in {"created", "deleted"}, o \in Orgs}

ReleaseEvents ==
    {Event("release", a, "acme", "alice", NoRuleset, NilChanges, r) :
        a \in {"released", "published"}, r \in {"acme/repo-ruleset-bot", "acme/ci"}}

UnhandledEvents == {Event("push", "", "acme", "alice", NoRuleset, NilChanges, "acme/ci"), Malformed("push")}

\* payloads that do not decode, one per event type
MalformedEvents == {Malformed(t) : t \in {"repository_ruleset", "installation", "release"}}

\* orders in which the installations map may be iterated
OrgOrders == {<<"acme", "beta">>, <<"beta", "acme">>}

\* position of the write call the platform fails (0: none)
FailPositions == 0..2

(***************************************************************************)
(* State.                                                                  *)
(***************************************************************************)
VARIABLES
    files,      \* the files of the rulesets directory
    platform,   \* the organization rulesets the platform holds, per organization
    nextId,     \* the id the platform gives the next ruleset created
    ev,         \* the delivery handled last (NoEvent: none since the last Done)
    calls,      \* the write calls issued while handling ev the last time
    res,        \* what Handle returned for it: "nil", an error, or "panic"
    deliveries, \* how many times in a row ev has been handled
    before,     \* the platform as it was when the last handling began
    firstCalls, \* the write calls of the first handling of ev
    pending,    \* deliveries the platform has emitted that await handling
    changed,    \* organization in which a user changed a ruleset ("": none)
    args,       \* the arguments of a function called on its own (<<>>: none)
    result,     \* <<r>>: the function returned r for args (<<>>: not called yet)
    keyFile,    \* the file private-key.pem of the working directory
    inflight    \* the deliveries being handled at the same time, each with its step

vars == <<files, platform, nextId, ev, calls, res, deliveries, before, firstCalls, pending, changed, args, result, keyFile, inflight>>

\* the state of the handler and of the platform
handlerVars == <<files, platform, nextId, ev, calls, res, deliveries, before, firstCalls, pending, changed, keyFile, inflight>>

Init ==
    /\ files \in Stores
    /\ platform = [o \in Orgs |-> {}]
    /\ nextId = 1
    /\ ev = NoEvent
    /\ calls = <<>>
    /\ res = "nil"
    /\ deliveries = 0
    /\ before = [o \in Orgs |-> {}]
    /\ firstCalls = <<>>
    /\ pending = <<>>
    /\ changed = ""
    /\ args = <<>>
    /\ result = <<>>
    /\ keyFile = "absent"
    /\ inflight = <<>>

\* handle a fresh delivery e
Deliver(e, order, failAt, infraFail) ==
    \E o \in {Handle(e, order, files, World(platform, nextId, failAt), infraFail)} :
        /\ ev' = e
        /\ platform' = o.w.platform
        /\ nextId' = o.w.nextId
        /\ calls' = o.w.calls
        /\ res' = o.res
        /\ deliveries' = 1
        /\ before' = platform
        /\ firstCalls' = o.w.calls
        /\ UNCHANGED <<files, pending, changed, args, result, keyFile, inflight>>

DeliverRulesetEdited ==
    /\ ev = NoEvent
    /\ \E e \in EditedEvents, failAt \in FailPositions, infraFail \in BOOLEAN :
        Deliver(e, <<>>, failAt, infraFail)

DeliverRulesetOther ==
    /\ ev = NoEvent
    /\ \E e \in OtherRulesetEvents, failAt \in FailPositions, infraFail \in BOOLEAN :
        Deliver(e, <<>>, failAt, infraFail)

DeliverInstallation ==
    /\ ev = NoEvent
    /\ \E e \in InstallationEvents, failAt \in FailPositions, infraFail \in BOOLEAN :
        Deliver(e, <<>>, failAt, infraFail)

DeliverRelease ==
    /\ ev = NoEvent
    /\ \E e \in ReleaseEvents, order \in OrgOrders, failAt \in FailPositions, infraFail \in BOOLEAN :
        Deliver(e, order, failAt, infraFail)

DeliverUnhandled ==
    /\ ev = NoEvent
    /\ \E e \in UnhandledEvents, infraFail \in BOOLEAN : Deliver(e, <<>>, 0, infraFail)

DeliverMalformed ==
    /\ ev = NoEvent
    /\ \E e \in MalformedEvents, order \in OrgOrders, infraFail \in BOOLEAN :
        Deliver(e, order, 0, infraFail)

\* the platform delivers the same event once more, nothing having changed
\* in between, and no call fails
Redeliver ==
    /\ ev.type = "repository_ruleset"
    /\ deliveries = 1
    /\ \E o \in {Handle(ev, <<>>, files, World(platform, nextId, 0), FALSE)} :
        /\ deliveries' = deliveries + 1
        /\ platform' = o.w.platform
        /\ nextId' = o.w.nextId
        /\ calls' = o.w.calls
        /\ res' = o.res
        /\ before' = platform
        /\ UNCHANGED <<files, ev, firstCalls, pending, changed, args, result, keyFile, inflight>>

\* the delivery is over; the handler keeps nothing of it
Done ==
    /\ ev # NoEvent
    /\ ev' = NoEvent
    /\ calls' = <<>>
    /\ res' = "nil"
    /\ deliveries' = 0
    /\ before' = platform
    /\ firstCalls' = <<>>
    /\ UNCHANGED <<files, platform, nextId, pending, changed, args, result, keyFile, inflight>>

Next ==
    \/ DeliverRulesetEdited
    \/ DeliverRulesetOther
    \/ DeliverInstallation
    \/ DeliverRelease
    \/ DeliverUnhandled
    \/ DeliverMalformed
    \/ Redeliver
    \/ Done

Spec == Init /\ [][Next]_vars

(***************************************************************************)
(* Vocabulary of the properties.                                           *)
(***************************************************************************)
IsRulesetEvent(action) == ev.type = "repository_ruleset" /\ ev.action = action

\* names of the definitions on file
DefNames == {files[i].def.name : i \in {j \in 1..Len(files) : files[j].ok}}

\* the event's ruleset is managed: it has the name of a definition, or the
\* event reports a rename from the name of a definition
Managed ==
    \/ ev.ruleset.name \in DefNames
    \/ ev.changes.present /\ ev.changes.name_from \in DefNames

\* the definitions loaded for organization o, when the load succeeds
Loaded(o) == getRulesets(files, o)

LoadOK(o) == ~Loaded(o).err

LoadedSet(o) == {Loaded(o).val[i] : i \in 1..Len(Loaded(o).val)}

CallsOf(op) == {i \in 1..Len(calls) : calls[i].op = op}

(***************************************************************************)
(* The App in a loop with the platform: the App is installed in one        *)
(* organization, which holds every definition; a user changes one ruleset  *)
(* once; the platform emits the event of the change, the App handles it,   *)
(* the platform emits the events of the App's own writes, and so on.  No   *)
(* call fails.                                                             *)
(***************************************************************************)
\* the rulesets of organization o once handleInstallation created them
InstalledIn(o) == {Stored(i, Loaded(o).val[i]) : i \in 1..Len(Loaded(o).val)}

InitLoop ==
    /\ files \in Stores
    /\ \E o \in Orgs :
        /\ LoadOK(o)
        /\ platform = [x \in Orgs |-> IF x = o THEN InstalledIn(o) ELSE {}]
        /\ nextId = Len(Loaded(o).val) + 1
    /\ ev = NoEvent
    /\ calls = <<>>
    /\ res = "nil"
    /\ deliveries = 0
    /\ before = platform
    /\ firstCalls = <<>>
    /\ pending = <<>>
    /\ changed = ""
    /\ args = <<>>
    /\ result = <<>>
    /\ keyFile = "absent"
    /\ inflight = <<>>

\* what a user may set the rules, conditions, enforcement, name of a ruleset to
UserRules == {<<PlainRule("pull_request")>>, <<PlainRule("deletion"), PlainRule("creation")>>}

UserConditions == {CondMain, CondAll, NilConditions}

UserEnforcements == {"active", "evaluate", "disabled"}

UserNames == {"other-name", "renamed"}

\* the payload the platform sends for ruleset r of organization o
RulesetPayload(action, o, sender, r, changes) ==
    Event("repository_ruleset", action, o, sender, Observed(r.id, r.name, r.enforcement, r.rules, r.conditions), changes, "")

\* the changes member of an edited payload: the former name and the former
\* enforcement, each only if it changed
ChangesOf(old, new) ==
    Changes(IF old.name # new.name THEN old.name ELSE "", IF old.enforcement # new.enforcement THEN old.enforcement ELSE "")

\* a user replaces ruleset r of organization o by r2
UserChange(o, r, r2) ==
    /\ r2 # r
    /\ platform' = [platform EXCEPT ![o] = (@ \ {r}) \cup {r2}]
    /\ pending' = <<RulesetPayload("edited", o, "alice", r2, ChangesOf(r, r2))>>
    /\ changed' = o
    /\ UNCHANGED <<files, nextId, ev, calls, res, deliveries, before, firstCalls, args, result, keyFile, inflight>>

\* a user edits the rules, the conditions or the enforcement of a ruleset
UserEdits ==
    /\ changed = ""
    /\ \E o \in Orgs : \E r \in platform[o] :
        \/ \E x \in UserRules : UserChange(o, r, [r EXCEPT !.rules = x])
        \/ \E x \in UserConditions : UserChange(o, r, [r EXCEPT !.conditions = x])
        \/ \E x \in UserEnforcements : UserChange(o, r, [r EXCEPT !.enforcement = x])

\* a user renames a ruleset
UserRenames ==
    /\ changed = ""
    /\ \E o \in Orgs : \E r \in platform[o] : \E x \in UserNames :
        UserChange(o, r, [r EXCEPT !.name = x])

\* a user deletes a ruleset; the payload of a deleted event has no changes
\* member, or an empty one
UserDeletes ==
    /\ changed = ""
    /\ \E o \in Orgs : \E r \in platform[o] : \E ch \in {NilChanges, Changes("", "")} :
        /\ platform' = [platform EXCEPT ![o] = @ \ {r}]
        /\ pending' = <<RulesetPayload("deleted", o, "alice", r, ch)>>
        /\ changed' = o
        /\ UNCHANGED <<files, nextId, ev, calls, res, deliveries, before, firstCalls, args, result, keyFile, inflight>>

\* the event the platform emits for a successful write call c of the App,
\* old being the rulesets of the organization before the call
EchoOf(c, old) ==
    IF c.op = "update"
    THEN RulesetPayload("edited", c.org, BotLogin, Stored(c.id, c.body),
                        ChangesOf(CHOOSE r \in old : r.id = c.id, Stored(c.id, c.body)))
    ELSE RulesetPayload("created", c.org, BotLogin, Stored(0, c.body), NilChanges)

Echoes(cs, old) ==
    LET okCalls == SelectSeq(cs, LAMBDA c : c.ok)
    IN  [i \in 1..Len(okCalls) |-> EchoOf(okCalls[i], old[okCalls[i].org])]

\* the App handles the oldest pending delivery
HandleNext ==
    /\ pending # <<>>
    /\ \E o \in {Handle(Head(pending), <<>>, files, World(platform, nextId, 0), FALSE)} :
        /\ ev' = Head(pending)
        /\ platform' = o.w.platform
        /\ nextId' = o.w.nextId
        /\ calls' = o.w.calls
        /\ res' = o.res
        /\ deliveries' = 1
        /\ before' = platform
        /\ firstCalls' = o.w.calls
        /\ pending' = Tail(pending) \o Echoes(o.w.calls, platform)
        /\ UNCHANGED <<files, changed, args, result, keyFile, inflight>>

NextLoop ==
    \/ UserEdits
    \/ UserRenames
    \/ UserDeletes
    \/ HandleNext

\* every delivery is handled in the end: the dispatcher runs the handler for
\* each delivery it receives
SpecLoop == InitLoop /\ [][NextLoop]_vars /\ WF_vars(HandleNext)

(***************************************************************************)
(* The differ called on its own: compareRulesets(ruleset, event) for a     *)
(* desired and an observed ruleset drawn from bounded sets.                *)
(***************************************************************************)
\* the handler at rest, nothing delivered
Idle ==
    /\ files = <<File(ManagedDef)>>
    /\ platform = [o \in Orgs |-> {}]
    /\ nextId = 1
    /\ ev = NoEvent
    /\ calls = <<>>
    /\ res = "nil"
    /\ deliveries = 0
    /\ before = [o \in Orgs |-> {}]
    /\ firstCalls = <<>>
    /\ pending = <<>>
    /\ changed = ""
    /\ keyFile = "absent"
    /\ inflight = <<>>

\* rules the compared lists are made of: two workflows rules differ in
\* their parameters only
RulePool == {PlainRule("pull_request"), WorkflowsRule(101), WorkflowsRule(201)}

RuleLists == UNION {[1..n -> RulePool] : n \in 0..MaxRules}

\* conditions of the compared rulesets: two that differ in a pattern, and none
DifferConditions == {CondMain, CondAll, NilConditions}

\* desired rulesets, as decoded from a file (no id), and nil
DesiredRulesets ==
    {[ManagedDef EXCEPT !.rules = r, !.conditions = c] : r \in RuleLists, c \in DifferConditions} \cup {NilRuleset}

\* observed rulesets, as an event carries them, and nil
ObservedRulesets ==
    {Observed(7, "managed-ruleset", "active", r, c) : r \in RuleLists, c \in DifferConditions} \cup {NilRuleset}

InitDiffer ==
    /\ Idle
    /\ \E d \in DesiredRulesets, o \in ObservedRulesets : args = [ruleset |-> d, event |-> o]
    /\ result = <<>>

\* compareRulesets(args.ruleset, args.event), and compareRules on their
\* rules when neither is nil
Compare ==
    /\ result = <<>>
    /\ result' = <<[rulesets |-> compareRulesets(args.ruleset, args.event),
                    rules    |-> IF IsNil(args.ruleset) \/ IsNil(args.event) THEN FALSE
                                 ELSE compareRules(args.ruleset.rules, args.event.rules)]>>
    /\ UNCHANGED <<handlerVars, args>>

NextDiffer == Compare

SpecDiffer == InitDiffer /\ [][NextDiffer]_vars

(***************************************************************************)
(* The managed guard called on its own: isManagedRuleset(event, ruleset)   *)
(* for the ruleset events the model draws and each definition.             *)
(***************************************************************************)
InitManaged ==
    /\ Idle
    /\ \E e \in EditedEvents \cup OtherRulesetEvents, d \in {ManagedDef, SecondDef} :
        args = [event |-> e, ruleset |-> d]
    /\ result = <<>>

\* isManagedRuleset(args.event, args.ruleset): a value, or a fault
CallIsManagedRuleset ==
    /\ result = <<>>
    /\ result' = <<IF isManagedRulesetFaults(args.event) THEN [panic |-> TRUE, val |-> FALSE]
                   ELSE [panic |-> FALSE, val |-> isManagedRuleset(args.event, args.ruleset)]>>
    /\ UNCHANGED <<handlerVars, args>>

NextManaged == CallIsManagedRuleset

SpecManaged == InitManaged /\ [][NextManaged]_vars

(***************************************************************************)
(* The loader called on its own: processRuleset(ruleset, orgName) for      *)
(* definitions whose rules and bypass actors are drawn from bounded sets.  *)
(***************************************************************************)
\* ids: none, built-in (1, 5), and ids of the source organization's teams
\* and roles or of nothing there (6); DeployKey is a type processRuleset has
\* no case for
ActorPool ==
    {Actor(id, t) : id \in {0, 1, 5, 6, 11, 12, 13, 14}, t \in {"Team", "RepositoryRole", "Integration"}}
        \cup {Actor(id, "DeployKey") : id \in {6, 11}}

ActorLists == UNION {[1..n -> ActorPool] : n \in 0..MaxActors}

\* rule lists: no workflows rule, a workflow of a repository both
\* organizations have, of one only the source has, of one that does not
\* exist, two workflows of repositories both organizations have, a rule
\* that resolves before one whose second workflow does not
LoaderRules == {<<PlainRule("pull_request")>>, <<WorkflowsRule(101)>>, <<PlainRule("deletion"), WorkflowsRule(102)>>, <<WorkflowsRule(999)>>,
                <<TwoWorkflowsRule(103, 101)>>, <<WorkflowsRule(103), TwoWorkflowsRule(101, 102)>>}

InitLoader ==
    /\ Idle
    /\ \E r \in LoaderRules, a \in ActorLists, o \in Orgs :
        args = [ruleset |-> [ManagedDef EXCEPT !.rules = r, !.bypass_actors = a], org |-> o]
    /\ result = <<>>

\* processRuleset(args.ruleset, args.org): the rewritten ruleset or an error
CallProcessRuleset ==
    /\ result = <<>>
    /\ result' = <<processRuleset(args.ruleset, args.org)>>
    /\ UNCHANGED <<handlerVars, args>>

NextLoader == CallProcessRuleset

SpecLoader == InitLoader /\ [][NextLoader]_vars

(***************************************************************************)
(* Two deliveries handled at the same time, for rulesets in different      *)
(* organizations.  Each handling first builds the JWT client of the App    *)
(* (newJWTClient), then does the rest of its work.  src/ holds two         *)
(* newJWTClient: one that writes the private key to the file               *)
(* private-key.pem of the working directory, reads it back and removes it  *)
(* (utils.go:110-142), and one that keeps the key in memory                *)
(* (utils.go:319-336); keyFile = "unused" stands for a build with the      *)
(* latter.  The rulesets directory holds one definition without            *)
(* references to translate, so that a handling builds one JWT client.      *)
(***************************************************************************)
\* rulesets/plain-ruleset.json: nothing to translate
PlainDef == [name |-> "plain-ruleset", enforcement |-> "active", source |-> SourceOrg,
             rules |-> <<PlainRule("deletion")>>,
             conditions |-> CondAll,
             bypass_actors |-> <<Actor(1, "OrganizationAdmin")>>]

\* every organization holds the ruleset of the definition; organization
\* number k holds it under id k
RacePlatform == [o \in Orgs |-> {Stored(IF o = "acme" THEN 1 ELSE 2, PlainDef)}]

\* an edited delivery for the ruleset of organization o
RaceEvents(o) ==
    {Event("repository_ruleset", "edited", o, s, Observed(IF o = "acme" THEN 1 ELSE 2, "plain-ruleset", "active", r, CondAll), ch, "") :
        s \in {BotLogin, "alice"}, r \in {PlainDef.rules, <<>>}, ch \in {Changes("", ""), Changes("", "disabled")}}

\* a delivery in flight: its event, the step its handling is at, the
\* result of newJWTClient and what the handling did
Flight(e) == [ev |-> e, pc |-> "jwt", jwt |-> "none", out |-> <<>>]

InitRace ==
    /\ files = <<File(PlainDef)>>
    /\ platform = RacePlatform
    /\ nextId = 3
    /\ ev = NoEvent
    /\ calls = <<>>
    /\ res = "nil"
    /\ deliveries = 0
    /\ before = RacePlatform
    /\ firstCalls = <<>>
    /\ pending = <<>>
    /\ changed = ""
    /\ args = <<>>
    /\ result = <<>>
    /\ keyFile \in {"absent", "unused"}
    /\ \E e1 \in RaceEvents("acme"), e2 \in RaceEvents("beta") : inflight = <<Flight(e1), Flight(e2)>>

raceFrame == <<files, platform, nextId, ev, calls, res, deliveries, before, firstCalls, pending, changed, args, result>>

\* newJWTClient with the key in memory: ghinstallation.NewAppsTransport
JWTInMemory ==
    \E p \in 1..Len(inflight) :
        /\ inflight[p].pc = "jwt" /\ keyFile = "unused"
        /\ inflight' = [inflight EXCEPT ![p].pc = "handle", ![p].jwt = "ok"]
        /\ UNCHANGED <<raceFrame, keyFile>>

\* os.Create("private-key.pem"): creates the file or truncates it
KeyCreate ==
    \E p \in 1..Len(inflight) :
        /\ inflight[p].pc = "jwt" /\ keyFile # "unused"
        /\ keyFile' = "empty"
        /\ inflight' = [inflight EXCEPT ![p].pc = "open"]
        /\ UNCHANGED raceFrame

\* os.WriteFile opens the file with O_CREATE and O_TRUNC ...
KeyOpen ==
    \E p \in 1..Len(inflight) :
        /\ inflight[p].pc = "open"
        /\ keyFile' = "empty"
        /\ inflight' = [inflight EXCEPT ![p].pc = "write"]
        /\ UNCHANGED raceFrame

\* ... and writes the key to it; when the file was removed after the open,
\* the write goes to the unlinked file and the name stays absent
KeyWrite ==
    \E p \in 1..Len(inflight) :
        /\ inflight[p].pc = "write"
        /\ keyFile' = IF keyFile = "absent" THEN "absent" ELSE "key"
        /\ inflight' = [inflight EXCEPT ![p].pc = "read"]
        /\ UNCHANGED raceFrame

\* ghinstallation.NewAppsTransportKeyFromFile: fails when the file is absent
\* or holds no key; newJWTClient then returns the error
KeyRead ==
    \E p \in 1..Len(inflight) :
        /\ inflight[p].pc = "read"
        /\ inflight' = IF keyFile = "key" THEN [inflight EXCEPT ![p].pc = "remove"]
                       ELSE [inflight EXCEPT ![p].pc = "handle", ![p].jwt = "error"]
        /\ UNCHANGED <<raceFrame, keyFile>>

\* os.Remove("private-key.pem"): fails when the file is absent, and
\* newJWTClient then returns the error
KeyRemove ==
    \E p \in 1..Len(inflight) :
        /\ inflight[p].pc = "remove"
        /\ keyFile' = "absent"
        /\ inflight' = [inflight EXCEPT ![p].pc = "handle", ![p].jwt = IF keyFile = "absent" THEN "error" ELSE "ok"]
        /\ UNCHANGED raceFrame

\* the rest of the handling, with the JWT client or with the error
HandleFlight ==
    \E p \in 1..Len(inflight) :
        /\ inflight[p].pc = "handle"
        /\ \E o \in {Handle(inflight[p].ev, <<>>, files, World(platform, nextId, 0), inflight[p].jwt # "ok")} :
            /\ platform' = o.w.platform
            /\ nextId' = o.w.nextId
            /\ inflight' = [inflight EXCEPT ![p].pc = "done", ![p].out = <<[calls |-> o.w.calls, res |-> o.res]>>]
        /\ UNCHANGED <<files, ev, calls, res, deliveries, before, firstCalls, pending, changed, args, result, keyFile>>

NextRace ==
    \/ JWTInMemory
    \/ KeyCreate
    \/ KeyOpen
    \/ KeyWrite
    \/ KeyRead
    \/ KeyRemove
    \/ HandleFlight

SpecRace == InitRace /\ [][NextRace]_vars

(***************************************************************************)
(* ReadConfig called on its own (config.go:27-82), for configuration files *)
(* drawn from bounded sets.  A file is absent or holds YAML; of the YAML    *)
(* the model keeps the scalars of the keys ReadConfig validates, as text    *)
(* for the port ("": key not set), and whether a key outside the schema is  *)
(* present.                                                                 *)
(***************************************************************************)
ConfigFiles ==
    [exists : BOOLEAN, unknownKey : BOOLEAN,
     address : {"", "127.0.0.1"}, port : {"", "8080", "not_an_int"},
     ruleset : {"", "ruleset.json"}, integration_id : {0, 12345},
     private_key : {"", "some_private_key"}, webhook_secret : {"", "some_webhook_secret"},
     v3_api_url : {"", "https://api.github.com"}]

\* yaml.UnmarshalStrict into Config: a key outside the schema or a port
\* that is no integer is an error; a key not set leaves the zero value
UnmarshalStrict(file) ==
    IF file.unknownKey \/ file.port \notin {"", "8080"} THEN Err(<<>>)
    ELSE Ok([Address |-> file.address, Port |-> IF file.port = "8080" THEN 8080 ELSE 0,
             RuleSet |-> file.ruleset, IntegrationID |-> file.integration_id,
             PrivateKey |-> file.private_key, WebhookSecret |-> file.webhook_secret,
             V3APIURL |-> file.v3_api_url])

\* isEmpty, by the dynamic type of the value: a string is empty when "",
\* an int when 0; a value of any other type (int64 included) only when nil
isEmpty(type, value) ==
    IF type = "string" THEN value = ""
    ELSE IF type = "int" THEN value = 0
    ELSE FALSE

\* validateConfig: the fields of requiredFields with their Go types
validateConfig(config) ==
    \/ isEmpty("string", config.Address)
    \/ isEmpty("int", config.Port)
    \/ isEmpty("string", config.RuleSet)
    \/ isEmpty("int64", config.IntegrationID)
    \/ isEmpty("string", config.PrivateKey)
    \/ isEmpty("string", config.WebhookSecret)
    \/ isEmpty("string", config.V3APIURL)

\* ReadConfig: (config, err), config <<>> standing for nil
ReadConfig(file) ==
    IF ~file.exists THEN [config |-> <<>>, err |-> TRUE]
    ELSE LET parsed == UnmarshalStrict(file)
         IN  IF parsed.err THEN [config |-> <<>>, err |-> TRUE]
             ELSE IF validateConfig(parsed.val) THEN [config |-> <<>>, err |-> TRUE]
             ELSE [config |-> <<parsed.val>>, err |-> FALSE]

InitConfig ==
    /\ Idle
    /\ args \in ConfigFiles
    /\ result = <<>>

CallReadConfig ==
    /\ result = <<>>
    /\ result' = <<ReadConfig(args)>>
    /\ UNCHANGED <<handlerVars, args>>

NextConfig == CallReadConfig

SpecConfig == InitConfig /\ [][NextConfig]_vars

(***************************************************************************)
(* The change detectors called on their own: isNameChanged(event, ruleset) *)
(* and isEnforcementChanged(event, ruleset) for the ruleset events the     *)
(* model draws and each definition.                                        *)
(***************************************************************************)
\* rulesets/draft-ruleset.json: a file that does not set "enforcement"
\* (github.Ruleset.Enforcement decodes as "")
DraftDef == [name |-> "draft-ruleset", enforcement |-> "", source |-> SourceOrg,
             rules |-> <<PlainRule("deletion")>>,
             conditions |-> CondAll,
             bypass_actors |-> <<Actor(1, "OrganizationAdmin")>>]

InitChanges ==
    /\ Idle
    /\ \E e \in EditedEvents \cup OtherRulesetEvents, d \in {ManagedDef, SecondDef, DraftDef} :
        args = [event |-> e, ruleset |-> d]
    /\ result = <<>>

\* isNameChanged and isEnforcementChanged of args.event and args.ruleset
CallChangeDetectors ==
    /\ result = <<>>
    /\ result' = <<[name        |-> isNameChanged(args.event, args.ruleset),
                    enforcement |-> isEnforcementChanged(args.event, args.ruleset)]>>
    /\ UNCHANGED <<handlerVars, args>>

NextChanges == CallChangeDetectors

SpecChanges == InitChanges /\ [][NextChanges]_vars

(***************************************************************************)
(* The comparison of a desired and an observed ruleset seen as an          *)
(* operation on its two operands, which are pointers: what it returns and  *)
(* what it leaves in them.  src/ holds two versions of compareRulesets:    *)
(* the function of main.go, which clears the ID of both operands and       *)
(* compares their JSON encodings, and the method of handler.go, which      *)
(* reads them only.  The caller reads event.Ruleset.GetID() into rulesetID *)
(* before it compares (main.go:282, handler.go:137).                       *)
(***************************************************************************)
\* json.Marshal of a ruleset whose ID is nil: every other field
MarshalWithoutID(ruleset) == [f \in (DOMAIN ruleset) \ {"id"} |-> ruleset[f]]

\* a ruleset with ruleset.ID = nil (GetID() of a nil ID is 0)
ClearID(ruleset) == IF "id" \in DOMAIN ruleset THEN [ruleset EXCEPT !.id = 0] ELSE ruleset

\* compareRulesets of main.go: the result, and the operands as it leaves them
mainCompareRulesets(ruleset1, ruleset2) ==
    [match    |-> MarshalWithoutID(ruleset1) = MarshalWithoutID(ruleset2),
     ruleset1 |-> ClearID(ruleset1),
     ruleset2 |-> ClearID(ruleset2)]

\* compareRulesets of handler.go: the result, and the operands as it leaves them
handlerCompareRulesets(ruleset, event) ==
    [match    |-> compareRulesets(ruleset, event),
     ruleset1 |-> ruleset,
     ruleset2 |-> event]

\* observed rulesets of the events compared
OperandEvents ==
    {Observed(id, n, "active", r, c) :
        id \in {1, 2, 7}, n \in {"managed-ruleset", "second-ruleset"},
        r \in ObservedRules \cup {SecondDef.rules}, c \in ObservedConditions}

InitOperands ==
    /\ Idle
    /\ \E d \in {ManagedDef, SecondDef, DraftDef}, o \in OperandEvents, v \in {"main.go", "handler.go"} :
        args = [ruleset |-> d, event |-> o, version |-> v]
    /\ result = <<>>

\* rulesetID := event.Ruleset.GetID(), then compareRulesets(ruleset, event.Ruleset)
CompareOperands ==
    /\ result = <<>>
    /\ result' = <<[rulesetID |-> args.event.id,
                    compared  |-> IF args.version = "main.go"
                                  THEN mainCompareRulesets(args.ruleset, args.event)
                                  ELSE handlerCompareRulesets(args.ruleset, args.event)]>>
    /\ UNCHANGED <<handlerVars, args>>

NextOperands == CompareOperands

SpecOperands == InitOperands /\ [][NextOperands]_vars

(***************************************************************************)
(* Two deliveries handled at the same time for the same ruleset of the     *)
(* same organization: two edited deliveries for the ruleset the            *)
(* organization holds, or two deleted deliveries for the ruleset it held.  *)
(* The steps are those of the deliveries handled at the same time above;   *)
(* the handlers take no lock and keep no record of the deliveries handled. *)
(***************************************************************************)
\* a delivery of that action for the ruleset of the definition in
\* organization o; deleted events come with and without a changes member
SameEvents(action, o) ==
    {Event("repository_ruleset", action, o, s, Observed(IF o = "acme" THEN 1 ELSE 2, "plain-ruleset", "active", PlainDef.rules, CondAll), ch, "") :
        s \in {BotLogin, "alice"},
        ch \in IF action = "deleted" THEN {NilChanges, Changes("", "")} ELSE {Changes("", ""), Changes("", "disabled")}}

\* the platform when the deliveries arrive: every organization holds the
\* ruleset, or, for deleted deliveries, none holds a ruleset
SamePlatform(action) ==
    IF action = "deleted" THEN [o \in Orgs |-> {}] ELSE RacePlatform

InitSame ==
    /\ files = <<File(PlainDef)>>
    /\ ev = NoEvent
    /\ calls = <<>>
    /\ res = "nil"
    /\ deliveries = 0
    /\ firstCalls = <<>>
    /\ pending = <<>>
    /\ changed = ""
    /\ args = <<>>
    /\ result = <<>>
    /\ keyFile \in {"absent", "unused"}
    /\ \E action \in {"edited", "deleted"}, o \in Orgs :
        /\ platform = SamePlatform(action)
        /\ before = SamePlatform(action)
        /\ nextId = (IF action = "deleted" THEN 1 ELSE 3)
        /\ \E e1 \in SameEvents(action, o), e2 \in SameEvents(action, o) : inflight = <<Flight(e1), Flight(e2)>>

SpecSame == InitSame /\ [][NextRace]_vars

(***************************************************************************)
(* getRepoFullNameFromURL called on its own, for URLs drawn from a bounded *)
(* set: a URL that url.Parse rejects, or a scheme, a host and a path.      *)
(***************************************************************************)
\* paths: sequences of "/" and of the names "owner" and "repo"
URLPaths == UNION {[1..n -> {"/", "owner", "repo"}] : n \in 0..MaxPathLen}

URLs == [parses : BOOLEAN, scheme : {"https", "http", "ftp"}, host : {"github.com", "example.com"}, path : URLPaths]

InitURL ==
    /\ Idle
    /\ args \in URLs
    /\ result = <<>>

CallGetRepoFullNameFromURL ==
    /\ result = <<>>
    /\ result' = <<getRepoFullNameFromURL(args)>>
    /\ UNCHANGED <<handlerVars, args>>

NextURL == CallGetRepoFullNameFromURL

SpecURL == InitURL /\ [][NextURL]_vars

(***************************************************************************)
(* getRulesetFiles called on its own (utils.go:403-417), for a directory   *)
(* argument that names a directory with entries, nothing, or a file.       *)
(***************************************************************************)
\* the names an entry of the directory can have, in the order of os.ReadDir
\* (sorted by file name)
EntryNames == <<"a.json", "b.json", "sub", "z.yml">>

\* what the directory holds under each name: nothing, a file, a directory
EntrySets == [{EntryNames[i] : i \in 1..Len(EntryNames)} -> {"none", "file", "dir"}]

\* the dir argument: the string given and its components
DirArgs == {[text |-> "rulesets", path |-> <<"rulesets">>],
            [text |-> "./rulesets", path |-> <<".", "rulesets">>],
            [text |-> "nonexistentdir", path |-> <<"nonexistentdir">>]}

\* what the file system holds at dir: a directory with entries, nothing, or
\* a file
Directories ==
    {[dir |-> d, kind |-> "dir", entries |-> e] : d \in DirArgs, e \in EntrySets}
        \cup {[dir |-> d, kind |-> k, entries |-> [n \in {EntryNames[i] : i \in 1..Len(EntryNames)} |-> "none"]] :
                 d \in DirArgs, k \in {"missing", "file"}}

\* os.ReadDir: the entries sorted by file name, or an error
ReadDir(fs) ==
    IF fs.kind # "dir" THEN Err(<<>>)
    ELSE LET all == [i \in 1..Len(EntryNames) |-> [name |-> EntryNames[i], isDir |-> fs.entries[EntryNames[i]] = "dir"]]
         IN  Ok(SelectSeq(all, LAMBDA entry : fs.entries[entry.name] # "none"))

\* filepath.Clean of a relative path: the "." components are dropped
Clean(path) == SelectSeq(path, LAMBDA c : c # ".")

\* filepath.Join(dir, name)
Join(path, name) == Clean(Append(path, name))

\* the message of the *PathError of os.ReadDir
ReadDirCause(fs) ==
    IF fs.kind = "missing" THEN <<"open", fs.dir.text, ":", "no such file or directory">>
    ELSE <<"readdirent", fs.dir.text, ":", "not a directory">>

\* getRulesetFiles returning the sub-directories with the files
getRulesetFiles_WithDirs(fs) ==
    LET entries == ReadDir(fs)
    IN  IF entries.err
        THEN [files |-> <<>>, err |-> TRUE, msg |-> <<"Failed", "to", "read", "directory", fs.dir.text, ":">> \o ReadDirCause(fs)]
        ELSE [files |-> [i \in 1..Len(entries.val) |-> Join(fs.dir.path, entries.val[i].name)], err |-> FALSE, msg |-> <<>>]

\* getRulesetFiles: the paths of the entries of dir that are not
\* directories, or the error of os.ReadDir wrapped; msg is the message of
\* the error, word by word
getRulesetFiles(fs) ==
    LET entries == ReadDir(fs)
    IN  IF entries.err
        THEN [files |-> <<>>, err |-> TRUE, msg |-> <<"Failed", "to", "read", "directory", fs.dir.text, ":">> \o ReadDirCause(fs)]
        ELSE LET ruleSetFiles == SelectSeq(entries.val, LAMBDA file : ~file.isDir)
             IN  [files |-> [i \in 1..Len(ruleSetFiles) |-> Join(fs.dir.path, ruleSetFiles[i].name)], err |-> FALSE, msg |-> <<>>]

InitFiles ==
    /\ Idle
    /\ args \in Directories
    /\ result = <<>>

CallGetRulesetFiles ==
    /\ result = <<>>
    /\ result' = <<getRulesetFiles(args)>>
    /\ UNCHANGED <<handlerVars, args>>

NextFiles == CallGetRulesetFiles

SpecFiles == InitFiles /\ [][NextFiles]_vars

(***************************************************************************)
(* Properties of the handlers.                                             *)
(***************************************************************************)
\* C1: handling an edited event whose sender is the App's own bot user
\* (slug followed by "[bot]") issues no create and no update call, whatever
\* the name, rules, conditions and reported changes of the observed ruleset.
C1_SelfEditIssuesNoWrite ==
    (IsRulesetEvent("edited") /\ ev.sender = BotLogin) => calls = <<>>

\* a bot-sent edit of the managed ruleset, renamed and with other conditions,
\* for a ruleset the platform holds, was handled and nothing was written
C1_Witness ==
    /\ IsRulesetEvent("edited") /\ ev.sender = BotLogin
    /\ ev.ruleset.name = "managed-ruleset"
    /\ ev.ruleset.conditions # ManagedDef.conditions
    /\ ev.changes.present /\ ev.changes.enforcement_from = "active"
    /\ \E r \in platform[ev.org] : r.id = ev.ruleset.id
    /\ LoadOK(ev.org)
    /\ res = "nil" /\ calls = <<>>

\* C2 (as stated): a create or update call is issued for a ruleset event
\* (edited or deleted, any sender) only if the ruleset is managed; for every
\* unmanaged ruleset the handler issues no write and returns success.
C2_Original ==
    (IsRulesetEvent("edited") \/ IsRulesetEvent("deleted")) =>
        /\ calls # <<>> => Managed
        /\ ~Managed => (calls = <<>> /\ res = "nil")

\* C2 (amended): a write is issued only for a managed ruleset; for an
\* unmanaged ruleset no write is issued, the handler never faults, and it
\* returns success unless obtaining a client or loading the definitions
\* failed (an unloadable definition makes the load fail before the guard).
C2_ManagedGuard ==
    (IsRulesetEvent("edited") \/ IsRulesetEvent("deleted")) =>
        /\ calls # <<>> => Managed
        /\ ~Managed =>
            /\ calls = <<>>
            /\ res \in {"nil", "client error", "load error"}
            /\ res = "load error" => ~LoadOK(ev.org)
            /\ (res = "nil" /\ ev.sender # BotLogin) => LoadOK(ev.org)

\* an edit by a user of a ruleset that is not managed, in an organization
\* that holds a ruleset with the event's id, was handled: no write, success
C2_Witness ==
    /\ IsRulesetEvent("edited") /\ ev.sender = "alice"
    /\ ~Managed
    /\ ev.ruleset.conditions # ManagedDef.conditions
    /\ \E r \in platform[ev.org] : r.id = ev.ruleset.id
    /\ LoadOK(ev.org) /\ Len(Loaded(ev.org).val) = 2
    /\ res = "nil" /\ calls = <<>>

\* the event's ruleset is managed by definition d: it has d's name, or the
\* event reports a rename from d's name
ManagedBy(d) ==
    \/ ev.ruleset.name = d.name
    \/ ev.changes.present /\ ev.changes.name_from = d.name

\* no client could not be obtained and the definitions loaded for the
\* event's organization
FailureFree == res # "client error" /\ LoadOK(ev.org)

\* the update call of definition d addressed to the event's ruleset
IsUpdateOf(c, d) ==
    c.op = "update" /\ c.org = ev.org /\ c.id = ev.ruleset.id /\ c.body = d

\* C3: for an edited event from a sender other than the App, for a managed
\* ruleset whose observed conditions differ from the conditions of its
\* definition, the handler issues exactly one update call, addressed to the
\* id of the event's ruleset in the event's organization, whose body is the
\* definition resolved for that organization.  Stated for handlings in
\* which a client was obtained, the definitions loaded and the event
\* carries its changes member.
C3_EditedConditionsDrift ==
    (IsRulesetEvent("edited") /\ ev.sender # BotLogin /\ ev.changes.present /\ FailureFree) =>
        \A d \in LoadedSet(ev.org) :
            (ManagedBy(d) /\ ev.ruleset.conditions # d.conditions) =>
                (Len(calls) = 1 /\ IsUpdateOf(calls[1], d))

\* C4: for an edited event from a sender other than the App, an update call
\* is issued only when the name changed, or the enforcement changed, or the
\* observed ruleset does not match the definition: no update is issued for
\* an observed ruleset that matches with no change reported.
C4_UpdateOnlyOnDrift ==
    (IsRulesetEvent("edited") /\ ev.sender # BotLogin) =>
        \A i \in 1..Len(calls) :
            calls[i].op = "update" =>
                \/ isNameChanged(ev, calls[i].body)
                \/ isEnforcementChanged(ev, calls[i].body)
                \/ ~compareRulesets(calls[i].body, ev.ruleset)

\* C5: for an edited event from a sender other than the App that reports a
\* rename from the name N of a definition to another name M (the observed
\* name), the handler issues an update call addressed to the id of the
\* event's ruleset whose body is the definition named N.  Stated for
\* handlings in which a client was obtained and the definitions loaded.
C5_RenameCorrected ==
    (IsRulesetEvent("edited") /\ ev.sender # BotLogin /\ ev.changes.present /\ FailureFree) =>
        \A d \in LoadedSet(ev.org) :
            (ev.changes.name_from = d.name /\ ev.ruleset.name # d.name) =>
                \E i \in 1..Len(calls) : IsUpdateOf(calls[i], d)

\* C6: for a deleted event whose ruleset has the name of a definition, the
\* handler issues exactly one create call in the event's organization with
\* that definition resolved for the organization, and no update call.
\* Stated for handlings in which a client was obtained and the definitions
\* loaded.
C6_DeletedRecreated ==
    (IsRulesetEvent("deleted") /\ FailureFree) =>
        \A d \in LoadedSet(ev.org) :
            ev.ruleset.name = d.name =>
                /\ Len(calls) = 1
                /\ calls[1].op = "create" /\ calls[1].org = ev.org /\ calls[1].body = d

\* every organization-scoped id of ruleset body d belongs to organization o:
\* the repositories of its workflows, its team and custom-role bypass actors
ResolvedFor(d, o) ==
    /\ \A i \in 1..Len(d.rules) : \A k \in 1..Len(d.rules[i].parameters.workflows) :
           \E r \in ReposOf[o] : r.id = d.rules[i].parameters.workflows[k].repository_id
    /\ \A i \in 1..Len(d.bypass_actors) :
           LET a == d.bypass_actors[i]
           IN  /\ (a.actor_type = "Team" /\ a.actor_id > 5) => \E t \in TeamsOf[o] : t.id = a.actor_id
               /\ (a.actor_type = "RepositoryRole" /\ a.actor_id > 5) => \E r \in RolesOf[o] : r.id = a.actor_id

IsInstallationCreated == ev.type = "installation" /\ ev.action = "created"

IsAppRelease == ev.action = "released" /\ ev.repo = getRepoFullNameFromURL(AppExternalURL).val

\* number of update calls of a release over all organizations
RECURSIVE FleetSize(_)
FleetSize(S) ==
    IF S = {} THEN 0
    ELSE LET o == CHOOSE x \in S : TRUE
         IN  Len(Loaded(o).val) + FleetSize(S \ {o})

C9_Idempotence ==
    (/\ IsRulesetEvent("edited") /\ ev.changes.present /\ deliveries = 2
     /\ firstCalls # <<>> /\ \A i \in 1..Len(firstCalls) : firstCalls[i].ok
     /\ \A i \in 1..Len(firstCalls) :
            \E r \in before[ev.org] :
                /\ r.name = firstCalls[i].body.name
                /\ compareRulesets(firstCalls[i].body, r))
        => calls = <<>>

\* organization o holds every definition as loaded for it
Converged(o) == \A d \in LoadedSet(o) : \E r \in platform[o] : r = Stored(r.id, d)

\* C10: starting from a platform whose rulesets equal their definitions,
\* after one change by a user (an edit of rules, conditions, name or
\* enforcement, or a deletion) and the failure-free handling of the events
\* that result, the organization holds, for each definition, a ruleset of
\* the definition's name whose content equals the definition.
C10_Convergence ==
    (changed # "" /\ pending = <<>>) => Converged(changed)

\* C11: in the loop with the platform, where every update of the App comes
\* back as an edited event sent by the App and every create as a created
\* event, one change by a user leads to at most one write call: the first
\* handling issues at most one, every later handling issues none, and the
\* loop comes to rest with no delivery pending.
C11_NoFeedbackLoop ==
    /\ [](Len(calls) <= 1)
    /\ [][deliveries = 1 => calls' = <<>>]_vars
    /\ ((changed # "") ~> [](pending = <<>>))

\* the App rewrote a ruleset a user had edited, the edited event of its own
\* update came back and was handled without a write; nothing is pending
C11_Witness ==
    /\ changed # "" /\ pending = <<>>
    /\ IsRulesetEvent("edited") /\ ev.sender = BotLogin
    /\ ev.ruleset.name \in DefNames
    /\ Converged(changed)
    /\ calls = <<>> /\ res = "nil"

(***************************************************************************)
(* Properties of the differ.                                               *)
(***************************************************************************)
\* how many rules of the list have type t
TypeCount(rules, t) == Cardinality({i \in 1..Len(rules) : rules[i].type = t})

\* the two lists have the same rule types, each the same number of times
SameTypeMultiset(a, b) ==
    \A t \in RuleTypes(a) \cup RuleTypes(b) : TypeCount(a, t) = TypeCount(b, t)

Compared == result # <<>> /\ ~IsNil(args.ruleset) /\ ~IsNil(args.event)

\* C12: for non-nil desired and observed rulesets whose rule types are the
\* same multiset and whose conditions are identical, compareRulesets is
\* true, whatever their ids and the parameters of their rules.
C12_MatchesOnSameTypes ==
    (/\ Compared
     /\ SameTypeMultiset(args.ruleset.rules, args.event.rules)
     /\ args.ruleset.conditions = args.event.conditions)
        => result[1].rulesets = TRUE

\* two rulesets with the same rule types in another order, other workflow
\* parameters and ids that differ were compared and match
C12_Witness ==
    /\ Compared
    /\ Len(args.ruleset.rules) = 2
    /\ SameTypeMultiset(args.ruleset.rules, args.event.rules)
    /\ args.ruleset.rules[1].type # args.event.rules[1].type
    /\ \E i, j \in 1..2 : /\ args.ruleset.rules[i].type = args.event.rules[j].type
                          /\ args.ruleset.rules[i].parameters # args.event.rules[j].parameters
    /\ args.ruleset.conditions = args.event.conditions
    /\ result[1].rulesets = TRUE

\* C13: when the observed ruleset contains a rule whose type does not occur
\* among the rule types of the desired ruleset, compareRulesets is false.
C13_ExtraTypeMismatch ==
    (/\ Compared
     /\ \E i \in 1..Len(args.event.rules) : args.event.rules[i].type \notin RuleTypes(args.ruleset.rules))
        => result[1].rulesets = FALSE

\* two rulesets with equally many rules and the same conditions were
\* compared, the observed one has a rule type the desired one lacks: no match
C13_Witness ==
    /\ Compared
    /\ Len(args.ruleset.rules) = 2 /\ Len(args.event.rules) = 2
    /\ args.ruleset.conditions = args.event.conditions
    /\ RuleTypes(args.ruleset.rules) = {"pull_request"}
    /\ args.event.rules[1].type = "pull_request" /\ args.event.rules[2].type = "workflows"
    /\ result[1].rulesets = FALSE

\* C14: compareRules is multiset equivalence of the rule types: it returns
\* true only if every rule type occurs as many times among the desired
\* rules as among the observed rules.
C14_RulesMultiset ==
    (Compared /\ result[1].rules = TRUE)
        => SameTypeMultiset(args.ruleset.rules, args.event.rules)

(***************************************************************************)
(* Properties of the managed guard and of the loader.                      *)
(***************************************************************************)
\* C15: isManagedRuleset(event, desired) is true exactly when the event
\* reports a non-empty former name equal to the desired name, or the name
\* of the event's ruleset equals the desired name.
C15_ManagedExactly ==
    result # <<>> =>
        /\ ~result[1].panic
        /\ result[1].val <=>
               \/ (args.event.changes.name_from # "" /\ args.event.changes.name_from = args.ruleset.name)
               \/ args.event.ruleset.name = args.ruleset.name

\* bypass actor a has none of the reserved ids (0, and the built-in 1..5)
NonReserved(a) == a.actor_id > 5

\* translating bypass actor a of the definition being loaded fails
TranslationFails(a) ==
    \/ a.actor_type = "Team" /\ processTeamActor(a, args.ruleset.source, args.org).err
    \/ a.actor_type = "RepositoryRole" /\ processRepoRoleActor(a, args.ruleset.source, args.org).err

\* rewriting a workflows rule of the definition being loaded fails
SomeWorkflowFails ==
    \E i \in 1..Len(args.ruleset.rules) :
        /\ args.ruleset.rules[i].type = "workflows"
        /\ processWorkflows(args.ruleset.rules[i], args.ruleset.source, args.org).err

\* C16: bypass actors whose id is 0 or one of the built-in ids 1..5 are
\* never translated: a load fails only through a workflows rule or an
\* actor with an id above 5, and a loaded ruleset carries each of them with
\* the id of the file; Team and RepositoryRole actors with an id above 5 are
\* translated.
C16_ReservedActorsUntouched ==
    result # <<>> =>
        LET as == args.ruleset.bypass_actors
        IN  /\ result[1].err =>
                \/ SomeWorkflowFails
                \/ \E i \in 1..Len(as) : NonReserved(as[i]) /\ TranslationFails(as[i])
            /\ ~result[1].err =>
                \A i \in 1..Len(as) :
                    /\ ~NonReserved(as[i]) => result[1].val.bypass_actors[i] = as[i]
                    /\ (NonReserved(as[i]) /\ as[i].actor_type = "Team") =>
                           result[1].val.bypass_actors[i].actor_id = getTeamByName(args.org, getTeamByID(args.ruleset.source, as[i].actor_id).val).val

\* a definition with a team actor of built-in id 5, which names no team, and
\* a custom role of the source organization was loaded for the other
\* organization: the first actor is as in the file, the role is rewritten
C16_Witness ==
    /\ result # <<>> /\ ~result[1].err
    /\ args.org = "beta"
    /\ args.ruleset.bypass_actors = <<Actor(5, "Team"), Actor(12, "RepositoryRole")>>
    /\ result[1].val.bypass_actors = <<Actor(5, "Team"), Actor(22, "RepositoryRole")>>

\* C17: in the body of every create and update call, every repository id
\* of a workflows rule and every Team or RepositoryRole bypass actor id
\* above 5 is an identity of the organization the call addresses (a
\* ruleset with a reference that does not resolve there is not written).
C17_SubmittedBodiesResolved ==
    \A k \in 1..Len(calls) : ResolvedFor(calls[k].body, calls[k].org)

\* custom role of the source organization with id a.actor_id has no role of
\* the same name in the target organization
RoleMissing(a) ==
    \E r \in RolesOf[args.ruleset.source] :
        /\ r.id = a.actor_id
        /\ ~\E t \in RolesOf[args.org] : t.name = r.name

\* C18: translating a RepositoryRole bypass actor fails with an error when
\* the role's name, found by id among the custom roles of the source
\* organization, is the name of no custom role of the target organization.
C18_RoleMissIsError ==
    (/\ result # <<>>
     /\ \E i \in 1..Len(args.ruleset.bypass_actors) :
            LET a == args.ruleset.bypass_actors[i]
            IN  NonReserved(a) /\ a.actor_type = "RepositoryRole" /\ RoleMissing(a))
        => result[1].err

(***************************************************************************)
(* Properties of the handlers when loading fails.                          *)
(***************************************************************************)
\* a file of the rulesets directory cannot be read or decoded
HasBadFile == \E i \in 1..Len(files) : ~files[i].ok

\* the handler of the event got as far as loading the definitions
ReachedLoad ==
    /\ res # "client error"
    /\ \/ IsInstallationCreated
       \/ IsRulesetEvent("deleted")
       \/ IsRulesetEvent("edited") /\ ev.sender # BotLogin
       \/ ev.type = "release" /\ IsAppRelease

\* C19: when reading or decoding any single definition file fails,
\* getRulesets returns an error and no ruleset, and the event being handled
\* issues no create and no update call for any definition.
C19_FailClosedLoad ==
    (ev # NoEvent /\ HasBadFile) =>
        /\ \A o \in Orgs : Loaded(o).err /\ Loaded(o).val = <<>>
        /\ calls = <<>>
        /\ ReachedLoad => res = "load error"

\* the App was installed with a readable definition and an unreadable file
\* in the rulesets directory: the load failed and nothing was created
C19_Witness ==
    /\ IsInstallationCreated /\ ev.org = "acme"
    /\ Len(files) = 2 /\ files[1].ok /\ ~files[2].ok
    /\ ~processRulesetFile(files[1], ev.org).err
    /\ res = "load error" /\ calls = <<>>

\* a readable definition of the rulesets directory has a reference that
\* does not resolve for organization o
MissIn(o) == \E i \in 1..Len(files) : files[i].ok /\ processRulesetFile(files[i], o).err

C21_FailedWriteAborts ==
    \A k \in 1..Len(calls) : ~calls[k].ok => (k = Len(calls) /\ res = "write error")

\* a release over both organizations whose second update call fails: the
\* first organization is updated, the walk stops at the second
C21_Witness ==
    /\ ev.type = "release" /\ Len(calls) = 2
    /\ calls[1].ok /\ ~calls[2].ok /\ calls[1].org # calls[2].org
    /\ res = "write error"

\* C22: Handles declares the event types repository_ruleset, installation
\* and release, in that order, and no other; every delivery on which Handle
\* writes or fails is of a declared type.
C22_HandlesDeclared ==
    /\ Handles = <<"repository_ruleset", "installation", "release">>
    /\ (calls # <<>> \/ res # "nil") => \E i \in 1..Len(Handles) : Handles[i] = ev.type

\* a release, the third declared type, was handled and led to an update
C22_Witness ==
    /\ Len(Handles) = 3 /\ ev.type = Handles[3]
    /\ calls # <<>> /\ calls[1].op = "update" /\ calls[1].ok

\* the delivery handled is of a type, or a decoded payload of an action,
\* for which Handle has no case
IsUnhandled ==
    /\ ev # NoEvent
    /\ \/ ev.type \notin {"repository_ruleset", "installation", "release"}
       \/ ev.json /\ ev.type = "repository_ruleset" /\ ev.action \notin {"created", "edited", "deleted"}
       \/ ev.json /\ ev.type = "installation" /\ ev.action # "created"
       \/ ev.json /\ ev.type = "release" /\ ev.action # "released"

\* C23: an event of a type other than repository_ruleset, installation and
\* release (its payload decoding or not), a repository_ruleset event of an
\* action other than created, edited and deleted, an installation event of
\* an action other than created and a release event of an action other than
\* released are handled with no write call and the result nil.
C23_UnhandledIsNoOp ==
    IsUnhandled => (calls = <<>> /\ res = "nil" /\ platform = before)

\* a push delivery whose payload does not decode was handled
C23_Witness ==
    /\ ev = Malformed("push") /\ deliveries = 1
    /\ calls = <<>> /\ res = "nil"

\* C24: a repository_ruleset event of action created is handled with no
\* write call and the result nil, whoever the sender and whatever the name
\* of the ruleset, and whether or not the rulesets directory can be loaded.
C24_CreatedIsLogOnly ==
    IsRulesetEvent("created") => (calls = <<>> /\ res = "nil" /\ platform = before)

\* a user created a ruleset with the name of a definition while a file of
\* the rulesets directory does not decode
C24_Witness ==
    /\ IsRulesetEvent("created") /\ ev.sender = "alice"
    /\ ev.ruleset.name \in DefNames /\ HasBadFile
    /\ calls = <<>> /\ res = "nil"

\* C25: the body submitted in a create or update call does not carry the
\* source organization of the definition it was loaded from.
C25_SourceNotSubmitted ==
    \A k \in 1..Len(calls) : \A i \in 1..Len(files) :
        (files[i].ok /\ files[i].def.name = calls[k].body.name) =>
            calls[k].body.source # files[i].def.source

(***************************************************************************)
(* Properties of deliveries handled at the same time.                      *)
(***************************************************************************)
\* what handling delivery e alone does: its write calls and its result
Alone(e) ==
    LET o == Handle(e, <<>>, files, World(RacePlatform, 3, 0), FALSE)
    IN  [calls |-> o.w.calls, res |-> o.res]

Parses == args.exists /\ ~UnmarshalStrict(args).err

\* C27: for a configuration file that sets the server address, the server
\* port, the GitHub App integration id, the private key, the webhook secret
\* and the v3 API URL and sets no ruleset path, ReadConfig returns a config
\* with the values of the file and no error.
C27_ValidConfigAccepted ==
    (/\ result # <<>> /\ Parses
     /\ args.address # "" /\ args.port = "8080" /\ args.integration_id # 0
     /\ args.private_key # "" /\ args.webhook_secret # "" /\ args.v3_api_url # ""
     /\ args.ruleset = "") =>
        /\ ~result[1].err
        /\ result[1].config = <<UnmarshalStrict(args).val>>

\* C28: ReadConfig returns a nil config and an error whenever the file does
\* not exist, the YAML does not fit the schema, or a field validateConfig
\* requires is empty; it never returns a config together with an error.
C28_InvalidConfigRejected ==
    result # <<>> =>
        /\ (\/ ~Parses
            \/ args.address = "" \/ args.port = "" \/ args.ruleset = ""
            \/ args.integration_id = 0 \/ args.private_key = ""
            \/ args.webhook_secret = "" \/ args.v3_api_url = "") =>
               (result[1].config = <<>> /\ result[1].err)
        /\ ~(result[1].config # <<>> /\ result[1].err)

(***************************************************************************)
(* Properties of the identity translation.                                 *)
(***************************************************************************)
\* the teams of organization o that have the slug of team id of organization s
TeamsLike(s, id, o) == {t \in TeamsOf[o] : \E u \in TeamsOf[s] : u.id = id /\ u.slug = t.slug}

\* C29: a Team bypass actor with an id above 5 is loaded with the id, in
\* the target organization, of the team that has the slug of the actor's
\* team in the source organization; when the source organization has no
\* team of that id, or the target organization none of that slug, loading
\* the definition fails.
C29_TeamTranslated ==
    result # <<>> =>
        \A i \in 1..Len(args.ruleset.bypass_actors) :
            LET a   == args.ruleset.bypass_actors[i]
                dst == TeamsLike(args.ruleset.source, a.actor_id, args.org)
            IN  (a.actor_type = "Team" /\ NonReserved(a)) =>
                    /\ dst = {} => result[1].err
                    /\ ~result[1].err =>
                           /\ result[1].val.bypass_actors[i].actor_type = "Team"
                           /\ \E t \in dst : result[1].val.bypass_actors[i].actor_id = t.id

\* team 14 of the source organization, "ops", was translated to team 24,
\* the "ops" of the other organization
C29_Witness ==
    /\ result # <<>> /\ ~result[1].err
    /\ args.org = "beta" /\ args.ruleset.source = "acme"
    /\ args.ruleset.bypass_actors = <<Actor(1, "Team"), Actor(14, "Team")>>
    /\ result[1].val.bypass_actors = <<Actor(1, "Team"), Actor(24, "Team")>>

\* the repositories of organization o that have the name of repository id
\* of organization s
ReposLike(s, id, o) == {r \in ReposOf[o] : \E u \in ReposOf[s] : u.id = id /\ u.name = r.name}

\* workflow w of a definition of organization s resolves in organization o
Resolves(w, s, o) == ReposLike(s, w.repository_id, o) # {}

\* C30: every workflow of every workflows rule of a loaded definition
\* carries the id, in the target organization, of the repository that has
\* the name of the workflow's repository in the source organization, with
\* its path and ref and at its position; when a workflow of a rule does not
\* resolve, loading the definition fails and the parameters of that rule
\* are left as they were.
C30_WorkflowsTranslated ==
    result # <<>> =>
        \A i \in 1..Len(args.ruleset.rules) :
            LET rule == args.ruleset.rules[i]
                ws   == rule.parameters.workflows
                new  == result[1].val.rules[i].parameters.workflows
            IN  rule.type = "workflows" =>
                    /\ (\E k \in 1..Len(ws) : ~Resolves(ws[k], args.ruleset.source, args.org)) =>
                           /\ result[1].err
                           /\ result[1].val.rules[i].parameters = rule.parameters
                    /\ ~result[1].err =>
                           /\ Len(new) = Len(ws)
                           /\ \A k \in 1..Len(ws) :
                                  /\ new[k].path = ws[k].path
                                  /\ new[k].ref = ws[k].ref
                                  /\ \E r \in ReposLike(args.ruleset.source, ws[k].repository_id, args.org) :
                                         new[k].repository_id = r.id

\* a rule with the workflows of "docs" and "ci" was loaded for the other
\* organization: both carry the ids of its repositories, in that order
C30_Witness ==
    /\ result # <<>> /\ ~result[1].err
    /\ args.org = "beta"
    /\ args.ruleset.rules = <<TwoWorkflowsRule(103, 101)>>
    /\ result[1].val.rules[1].parameters.workflows[1].repository_id = 203
    /\ result[1].val.rules[1].parameters.workflows[2].repository_id = 201
    /\ result[1].val.rules[1].parameters.workflows[1].path = ".github/workflows/docs.yml"

\* bypass actor a is of a type processRuleset does not translate
PassedThrough(a) == a.actor_type \notin {"Team", "RepositoryRole"}

\* C31: a bypass actor of type Integration, or of a type other than Team,
\* RepositoryRole and Integration, is in what loading leaves (the loaded
\* ruleset, or the ruleset as the failed load left it) as it is in the
\* file; a load fails only through a workflows rule or a Team or
\* RepositoryRole actor; and the actors after it are still processed: a
\* Team actor with an id above 5 that follows it is loaded with the id of
\* the target organization's team.
C31_OtherActorsPassThrough ==
    result # <<>> =>
        LET as == args.ruleset.bypass_actors
        IN  /\ \A i \in 1..Len(as) : PassedThrough(as[i]) => result[1].val.bypass_actors[i] = as[i]
            /\ result[1].err =>
                \/ SomeWorkflowFails
                \/ \E i \in 1..Len(as) : ~PassedThrough(as[i]) /\ NonReserved(as[i]) /\ TranslationFails(as[i])
            /\ ~result[1].err =>
                \A i \in 1..Len(as), j \in 1..Len(as) :
                    (i < j /\ PassedThrough(as[i]) /\ NonReserved(as[i]) /\ as[j].actor_type = "Team" /\ NonReserved(as[j])) =>
                        \E t \in TeamsLike(args.ruleset.source, as[j].actor_id, args.org) :
                            result[1].val.bypass_actors[j].actor_id = t.id

\* an Integration actor with id 11 (the id of a team of the source
\* organization) followed by team 14 was loaded for the other organization:
\* the Integration actor is as in the file, the team is translated to 24
C31_Witness ==
    /\ result # <<>> /\ ~result[1].err
    /\ args.org = "beta" /\ args.ruleset.source = "acme"
    /\ args.ruleset.bypass_actors = <<Actor(11, "Integration"), Actor(14, "Team")>>
    /\ result[1].val.bypass_actors = <<Actor(11, "Integration"), Actor(24, "Team")>>

\* an actor of a type without a case, followed by team 14, was loaded for
\* the other organization
C31_WitnessUnknownType ==
    /\ result # <<>> /\ ~result[1].err
    /\ args.org = "beta"
    /\ args.ruleset.bypass_actors = <<Actor(11, "DeployKey"), Actor(14, "Team")>>
    /\ result[1].val.bypass_actors = <<Actor(11, "DeployKey"), Actor(24, "Team")>>

\* C32: for non-nil desired and observed rulesets whose conditions are not
\* deep-equal (one of them has none, or they differ in a pattern),
\* compareRulesets is false, also when the rule types agree.
C32_ConditionsMustBeEqual ==
    (Compared /\ args.ruleset.conditions # args.event.conditions)
        => result[1].rulesets = FALSE

\* two rulesets with the same rules were compared, the desired one targets
\* the default branch and the observed one every branch: no match
C32_Witness ==
    /\ Compared
    /\ args.ruleset.rules = args.event.rules /\ Len(args.ruleset.rules) = 2
    /\ args.ruleset.conditions = CondMain /\ args.event.conditions = CondAll
    /\ result[1].rules = TRUE
    /\ result[1].rulesets = FALSE

\* two rulesets with the same rules were compared, only the desired one has
\* conditions: no match
C32_WitnessNoConditions ==
    /\ Compared
    /\ args.ruleset.rules = args.event.rules /\ Len(args.ruleset.rules) = 2
    /\ args.ruleset.conditions = CondMain /\ args.event.conditions = NilConditions
    /\ result[1].rules = TRUE
    /\ result[1].rulesets = FALSE

(***************************************************************************)
(* Properties of the change detectors.                                     *)
(***************************************************************************)
\* the event reports a change of the name: its changes member carries a
\* former name
ReportsNameChange(event) == event.changes.present /\ event.changes.name_from # ""

\* the event reports a change of the enforcement
ReportsEnforcementChange(event) == event.changes.present /\ event.changes.enforcement_from # ""

\* C33: isNameChanged(event, desired) is true exactly when the event
\* reports a name change whose former name is the desired name, and
\* isEnforcementChanged(event, desired) exactly when it reports an
\* enforcement change whose former enforcement is the desired one; both are
\* false for an event without changes and for one that reports no change
\* of that field.
C33_DetectorsExact ==
    result # <<>> =>
        /\ result[1].name <=>
               (ReportsNameChange(args.event) /\ args.event.changes.name_from = args.ruleset.name)
        /\ result[1].enforcement <=>
               (ReportsEnforcementChange(args.event) /\ args.event.changes.enforcement_from = args.ruleset.enforcement)

\* for a definition that sets its name and its enforcement the two
\* detectors are exact
C33_ExactForCompleteDefinitions ==
    (result # <<>> /\ args.ruleset.name # "" /\ args.ruleset.enforcement # "") =>
        /\ result[1].name <=>
               (ReportsNameChange(args.event) /\ args.event.changes.name_from = args.ruleset.name)
        /\ result[1].enforcement <=>
               (ReportsEnforcementChange(args.event) /\ args.event.changes.enforcement_from = args.ruleset.enforcement)

\* without a changes member both detectors are false
C33_NilChangesIsNoChange ==
    (result # <<>> /\ ~args.event.changes.present) => (~result[1].name /\ ~result[1].enforcement)

C34_HandlerVersionReadsOnly ==
    (result # <<>> /\ args.version = "handler.go") => result[1].compared.ruleset2 = args.event

\* in both versions the id that keys the update call is the id of the
\* event, and no field other than the id is changed
C34_KeyIsEventID ==
    result # <<>> =>
        /\ result[1].rulesetID = args.event.id
        /\ MarshalWithoutID(result[1].compared.ruleset2) = MarshalWithoutID(args.event)

(***************************************************************************)
(* Properties of deliveries handled at the same time for one ruleset.      *)
(***************************************************************************)
\* both deliveries are for the same ruleset of the same organization, come
\* from a user, and both handlings have ended with a JWT client
BothHandled ==
    /\ Len(inflight) = 2
    /\ inflight[1].ev.org = inflight[2].ev.org
    /\ inflight[1].ev.ruleset.name = inflight[2].ev.ruleset.name
    /\ \A p \in 1..2 : /\ inflight[p].pc = "done" /\ inflight[p].jwt = "ok"
                       /\ inflight[p].ev.sender # BotLogin

\* the handling of delivery p issued one write call, a create for a deleted
\* and an update for an edited event, for the ruleset name and the
\* organization of the event
WroteOnce(p) ==
    LET cs == inflight[p].out[1].calls
    IN  /\ Len(cs) = 1
        /\ cs[1].op = (IF inflight[p].ev.action = "deleted" THEN "create" ELSE "update")
        /\ cs[1].org = inflight[p].ev.org
        /\ cs[1].body.name = inflight[p].ev.ruleset.name

\* C35: two deleted deliveries, or two edited deliveries from a user, for
\* the same managed ruleset of the same organization do not exclude each
\* other: when both have been handled, each has issued its write call, so
\* two create calls (or two update calls) for the same ruleset name went to
\* the same organization.
C35_NotMutuallyExcluded ==
    BothHandled => (WroteOnce(1) /\ WroteOnce(2))

\* the same for deliveries whose payload carries a changes member
C35_NotExcludedWithChanges ==
    (BothHandled /\ \A p \in 1..2 : inflight[p].ev.changes.present) => (WroteOnce(1) /\ WroteOnce(2))

\* two edited deliveries from a user for ruleset 1 of acme have both been
\* handled: two update calls for plain-ruleset went to acme
C35_WitnessTwoUpdates ==
    /\ BothHandled /\ WroteOnce(1) /\ WroteOnce(2)
    /\ inflight[1].ev.org = "acme" /\ inflight[1].ev.action = "edited"
    /\ \A p \in 1..2 : inflight[p].out[1].calls[1].ok /\ inflight[p].out[1].calls[1].id = 1

\* two deleted deliveries that carry a changes member have both been
\* handled: two create calls for plain-ruleset went to acme, which holds it twice
C35_WitnessTwoCreates ==
    /\ BothHandled /\ WroteOnce(1) /\ WroteOnce(2)
    /\ inflight[1].ev.org = "acme" /\ inflight[1].ev.action = "deleted"
    /\ Cardinality({r \in platform["acme"] : r.name = "plain-ruleset"}) = 2

(***************************************************************************)
(* Properties of getRepoFullNameFromURL.                                   *)
(***************************************************************************)
\* the positions of path that hold something other than "/"
NamePositions(path) == {i \in 1..Len(path) : path[i] # "/"}

\* the path without its leading and trailing slashes
Trimmed(path) ==
    IF NamePositions(path) = {} THEN <<>>
    ELSE LET lo == CHOOSE i \in NamePositions(path) : \A j \in NamePositions(path) : i <= j
             hi == CHOOSE i \in NamePositions(path) : \A j \in NamePositions(path) : j <= i
         IN  SubSeq(path, lo, hi)

\* the trimmed path has exactly two segments: one "/" is left in it
TwoSegments(path) ==
    Cardinality({i \in 1..Len(Trimmed(path)) : Trimmed(path)[i] = "/"}) = 1

\* the URL parses, with scheme http or https, host github.com and a path of
\* two segments
IsRepoURL(url) ==
    /\ url.parses
    /\ url.scheme \in {"http", "https"}
    /\ url.host = "github.com"
    /\ TwoSegments(url.path)

\* C36: getRepoFullNameFromURL returns the trimmed path, "owner/repo", with
\* a nil error exactly when the URL parses, its scheme is http or https, its
\* host is github.com and its path, trimmed of leading and trailing
\* slashes, has exactly two segments; otherwise it returns the empty string
\* and an error.
C36_RepoFullNameExact ==
    result # <<>> =>
        /\ ~result[1].err <=> IsRepoURL(args)
        /\ ~result[1].err => result[1].val = PathString(Trimmed(args.path))
        /\ result[1].err => result[1].val = ""

\* https://github.com/owner/repo/ gave "owner/repo"
C36_Witness ==
    /\ result # <<>>
    /\ args.parses /\ args.scheme = "https" /\ args.host = "github.com"
    /\ args.path = <<"/", "owner", "/", "repo", "/">>
    /\ result[1] = Ok("owner/repo")

\* https://github.com/owner/repo/repo gave an error
C36_WitnessExtraSegment ==
    /\ result # <<>>
    /\ args.parses /\ args.scheme = "https" /\ args.host = "github.com"
    /\ args.path = <<"/", "owner", "/", "repo", "/", "repo">>
    /\ result[1] = Err("")

(***************************************************************************)
(* Properties of getRulesetFiles.                                          *)
(***************************************************************************)
\* the names of the entries of the directory that are files
FileNames == {n \in DOMAIN args.entries : args.entries[n] = "file"}

\* path p is the directory given, joined with entry name n
IsJoined(p, n) ==
    /\ p # <<>>
    /\ p[Len(p)] = n
    /\ SubSeq(p, 1, Len(p) - 1) = (IF args.dir.path[1] = "." THEN Tail(args.dir.path) ELSE args.dir.path)

\* C37: for an existing directory getRulesetFiles returns, with a nil
\* error, exactly one path per entry that is not a directory, each the
\* directory joined with the name of the entry, and no path for a
\* sub-directory; for a directory without files it returns an empty list.
C37_OnePathPerFile ==
    (result # <<>> /\ args.kind = "dir") =>
        LET fs == result[1].files
        IN  /\ ~result[1].err
            /\ Len(fs) = Cardinality(FileNames)
            /\ \A n \in FileNames : \E i \in 1..Len(fs) : IsJoined(fs[i], n)
            /\ \A i \in 1..Len(fs) : \E n \in FileNames : IsJoined(fs[i], n)
            /\ FileNames = {} => fs = <<>>

\* ./rulesets holds the files a.json and z.yml and the directory sub: the
\* two files are returned, sub is not
C37_Witness ==
    /\ result # <<>>
    /\ args.kind = "dir" /\ args.dir.text = "./rulesets"
    /\ args.entries = [n \in DOMAIN args.entries |-> IF n = "sub" THEN "dir" ELSE IF n = "b.json" THEN "none" ELSE "file"]
    /\ result[1].files = <<<<"rulesets", "a.json">>, <<"rulesets", "z.yml">>>>
    /\ ~result[1].err

\* a directory that holds nothing but a sub-directory gave an empty list
C37_WitnessNoFiles ==
    /\ result # <<>>
    /\ args.kind = "dir"
    /\ args.entries = [n \in DOMAIN args.entries |-> IF n = "sub" THEN "dir" ELSE "none"]
    /\ result[1].files = <<>> /\ ~result[1].err

\* the words sub occur in msg, one after the other
Contains(msg, sub) ==
    \E i \in 0..(Len(msg) - Len(sub)) : SubSeq(msg, i + 1, i + Len(sub)) = sub

\* C38: for a directory that does not exist getRulesetFiles returns an
\* error whose message contains "Failed to read from directory <dir>".
C38_MissingDirectoryMessage ==
    (result # <<>> /\ args.kind = "missing") =>
        /\ result[1].err
        /\ Contains(result[1].msg, <<"Failed", "to", "read", "from", "directory", args.dir.text>>)

\* for a directory that does not exist, or that is a file, getRulesetFiles
\* returns no path and an error whose message begins "Failed to read
\* directory <dir>"
C38_MissingDirectoryIsError ==
    (result # <<>> /\ args.kind # "dir") =>
        /\ result[1].err
        /\ result[1].files = <<>>
        /\ SubSeq(result[1].msg, 1, 5) = <<"Failed", "to", "read", "directory", args.dir.text>>

(***************************************************************************)
(* Properties of the managed guard for events without a changes member.    *)
(***************************************************************************)
\* C39: for an event whose payload has no changes member, as deleted
\* events have, isManagedRuleset does not fault and returns true exactly
\* when the name of the event's ruleset is the desired name.
C39_ManagedTotal ==
    (result # <<>> /\ ~args.event.changes.present) =>
        /\ ~result[1].panic
        /\ result[1].val <=> (args.event.ruleset.name = args.ruleset.name)

\* for an event that carries a changes member isManagedRuleset does not
\* fault
C39_TotalWithChanges ==
    (result # <<>> /\ args.event.changes.present) => ~result[1].panic

\* the consequence for the handler: a deleted event without a changes
\* member for a ruleset with the name of a definition, handled with a
\* client and the definitions loaded, ends without a fault and with the
\* create call of that definition
C39_DeletedStillRecreated ==
    (IsRulesetEvent("deleted") /\ FailureFree /\ ~ev.changes.present
        /\ \E d \in LoadedSet(ev.org) : d.name = ev.ruleset.name) =>
            /\ res # "panic"
            /\ Len(calls) = 1 /\ calls[1].op = "create" /\ calls[1].body.name = ev.ruleset.name

(***************************************************************************)
(* Properties of the reach of the writes.                                  *)
(***************************************************************************)
\* C40: handling a repository_ruleset or an installation event for an
\* organization issues create and update calls against that organization
\* only, at most one per definition on file (each call carries a definition
\* of its own), and leaves the rulesets of every other organization as they
\* were.
C40_WritesStayInEventOrg ==
    (ev.json /\ ev.type \in {"repository_ruleset", "installation"}) =>
        /\ \A k \in 1..Len(calls) :
               /\ calls[k].org = ev.org
               /\ \E i \in 1..Len(files) : files[i].ok /\ files[i].def.name = calls[k].body.name
        /\ \A k, l \in 1..Len(calls) : k # l => calls[k].body.name # calls[l].body.name
        /\ Len(calls) <= Len(files)
        /\ \A o \in Orgs \ {ev.org} : platform[o] = before[o]

\* the App was installed in beta while acme held a ruleset: one create call
\* went to beta, which now holds the ruleset, and acme is as it was
C40_Witness ==
    /\ ev.type = "installation" /\ ev.action = "created" /\ ev.org = "beta"
    /\ Len(calls) = 1 /\ calls[1].op = "create" /\ calls[1].ok /\ calls[1].org = "beta"
    /\ platform["acme"] # {} /\ platform["acme"] = before["acme"]
    /\ platform["beta"] # before["beta"]

\* two definitions on file and the App installed in acme: two create calls,
\* one per definition
C40_WitnessTwoDefinitions ==
    /\ ev.type = "installation" /\ ev.action = "created" /\ ev.org = "acme"
    /\ Len(calls) = 2 /\ calls[1].body.name # calls[2].body.name
    /\ \A k \in 1..2 : calls[k].op = "create" /\ calls[k].org = "acme"

=============================================================================
